---- MODULE Spec2Model ----
(***************************************************************************)
(* Model of the request-resilience layer of the GitLab merge-request       *)
(* viewer: the retrying transports (graphqlRequest, restRequest, restPost) *)
(* and the cursor-walking paginator (fetchAllCommits, fetchAllDiscussions).*)
(***************************************************************************)
EXTENDS Integers, Sequences, FiniteSets, TLC

(***************************************************************************)
(* Bounds of the model.                                                    *)
(***************************************************************************)
MaxRetries == 2
MaxRetryAfter == 12
MaxPages == 2
MaxItems == 2
MaxCacheSize == 2
MaxCalls == 2
MaxInstances == 1
MaxPolls == 3

(***************************************************************************)
(* Program constants.                                                      *)
(***************************************************************************)
DefaultRetryAfterSeconds == 60
RateLimitJitterMs == 1000
BackoffJitterMs == 500
DefaultRetryDelay == 1000

\* Stand-ins for the JavaScript values undefined and NaN where a number is
\* expected; no status, delay or parsed header of the model takes these values.
Undefined == 0 - 1
NaN == 0 - 2
Null == "null"

(***************************************************************************)
(* utils/errors: GitLabErrorCode, GitLabError, createGitLabError.          *)
(***************************************************************************)
GitLabErrorCode ==
  { "GITLAB_NET_ERR", "GITLAB_AUTH_ERR", "GITLAB_RATE_LIMIT",
    "GITLAB_NOT_FOUND", "GITLAB_GRAPHQL_ERR", "GITLAB_UNKNOWN_ERR" }

createGitLabError(code, statusCode, retryAfter) ==
  [name |-> "GitLabError", code |-> code,
   statusCode |-> statusCode, retryAfter |-> retryAfter]

\* An exception that is not a GitLabError: the TypeError a rejected fetch
\* carries, or the SyntaxError of response.json().  It has no code field.
PlainError(name) == [name |-> name]

\* error instanceof Error && 'code' in error
HasCode(error) == "code" \in DOMAIN error

(***************************************************************************)
(* The Retry-After header: a string, modelled as a sequence of characters. *)
(***************************************************************************)
Digits == <<"0", "1", "2", "3", "4", "5", "6", "7", "8", "9">>

DigitValue(c) == CHOOSE d \in 0..9 : Digits[d + 1] = c

IsDigit(c) == \E d \in 0..9 : Digits[d + 1] = c

\* The decimal text of a natural number, as a server writes delta-seconds.
RECURSIVE FormatDec(_)
FormatDec(n) ==
  IF n < 10 THEN <<Digits[n + 1]>>
  ELSE FormatDec(n \div 10) \o <<Digits[(n % 10) + 1]>>

\* The longest prefix of s made of decimal digits.
RECURSIVE DigitPrefix(_)
DigitPrefix(s) ==
  IF s = <<>> \/ ~IsDigit(Head(s)) THEN <<>>
  ELSE <<Head(s)>> \o DigitPrefix(Tail(s))

RECURSIVE DigitsToNat(_, _)
DigitsToNat(s, acc) ==
  IF s = <<>> THEN acc
  ELSE DigitsToNat(Tail(s), acc * 10 + DigitValue(Head(s)))

\* parseInt(s, 10): the value of the leading digits, NaN when there are none.
ParseInt(s) ==
  IF DigitPrefix(s) = <<>> THEN NaN ELSE DigitsToNat(DigitPrefix(s), 0)

\* const retryAfterSeconds = retryAfter ? parseInt(retryAfter, 10) : 60;
\* headers.get gives null for an absent header; null and '' are falsy.
RetryAfterSeconds(headers) ==
  IF "Retry-After" \notin DOMAIN headers \/ headers["Retry-After"] = <<>>
  THEN DefaultRetryAfterSeconds
  ELSE ParseInt(headers["Retry-After"])

\* Mutant: the header's seconds taken for milliseconds.
RateLimitDelay_Seconds(retryAfterSeconds, jitter) ==
  IF retryAfterSeconds = NaN THEN NaN ELSE retryAfterSeconds + jitter

\* retryAfterSeconds * 1000 + jitter
RateLimitDelay(retryAfterSeconds, jitter) ==
  IF retryAfterSeconds = NaN THEN NaN ELSE retryAfterSeconds * 1000 + jitter

RECURSIVE Pow2(_)
Pow2(n) == IF n = 0 THEN 1 ELSE 2 * Pow2(n - 1)

\* Mutant: the same delay before every attempt.
BackoffDelay_Flat(delay, att, jitter) == delay + jitter

\* retryDelay * Math.pow(2, attempt) + jitter
BackoffDelay(delay, att, jitter) == delay * Pow2(att) + jitter

(***************************************************************************)
(* What one call of fetch can produce.                                     *)
(***************************************************************************)
NoHeaders == <<>>
RetryAfterHeader(value) == "Retry-After" :> value

\* Retry-After as the server may send it: absent, empty, delta-seconds, or
\* an HTTP-date.
RetryAfterHeaders ==
  { NoHeaders, RetryAfterHeader(<<>>), RetryAfterHeader(FormatDec(0)),
    RetryAfterHeader(FormatDec(MaxRetryAfter)),
    RetryAfterHeader(<<"W", "e", "d", ",", " ", "2", "1">>) }

\* A decoded body: valid is FALSE when response.json() rejects.
Body(valid, hasErrors, errors, data) ==
  [valid |-> valid, hasErrors |-> hasErrors, errors |-> errors, data |-> data]

\* The value response.json() resolves to is kept in the data field; for the
\* REST transports it is the whole payload.
NoBody == Body(FALSE, FALSE, <<>>, Null)
DataBody == Body(TRUE, FALSE, <<>>, "D1")
GraphQLBodies ==
  { DataBody,
    Body(TRUE, TRUE, <<>>, "D2"),
    Body(TRUE, TRUE, <<"Invalid query">>, Null),
    Body(TRUE, TRUE, <<"Partial">>, "D3"),
    Body(TRUE, FALSE, <<>>, Null),
    NoBody }
RestBodies == { DataBody, NoBody }

Response(status, headers, body) ==
  [rejected |-> FALSE, status |-> status, headers |-> headers, body |-> body]

\* fetch rejected: no response at all.
Rejected == [rejected |-> TRUE, status |-> Undefined, headers |-> NoHeaders,
             body |-> NoBody]

ErrorStatuses == {400, 401, 403, 404, 500}

Outcomes(t) ==
  {Rejected}
  \cup {Response(s, NoHeaders, NoBody) : s \in ErrorStatuses}
  \cup {Response(429, h, NoBody) : h \in RetryAfterHeaders}
  \cup {Response(200, NoHeaders, b) :
          b \in IF t = "graphql" THEN GraphQLBodies ELSE RestBodies}
  \cup {Response(201, NoHeaders, DataBody)}

\* Mutant: only status 200 counts as success.
Ok_Only200(response) == response.status = 200

\* response.ok
Ok(response) == response.status >= 200 /\ response.status <= 299

(***************************************************************************)
(* The body of the try block, from the response to its first await of a    *)
(* timer, its throw or its return.                                         *)
(***************************************************************************)
Sleep429(secs) == [kind |-> "sleep429", secs |-> secs]
Throw(error) == [kind |-> "throw", error |-> error]
Return(value) == [kind |-> "return", value |-> value]

\* if (attempt < retries) in the 429 branch and in the catch block
AttemptsRemain(att, n) == att < n

\* Mutant: the error carries the default instead of the header's value.
RateLimited_DefaultRetryAfter(response, att, n) ==
  IF AttemptsRemain(att, n)
  THEN Sleep429(RetryAfterSeconds(response.headers))
  ELSE Throw(createGitLabError("GITLAB_RATE_LIMIT", 429,
                               DefaultRetryAfterSeconds))

\* if (response.status === 429) { ... }
RateLimited(response, att, n) ==
  IF AttemptsRemain(att, n)
  THEN Sleep429(RetryAfterSeconds(response.headers))
  ELSE Throw(createGitLabError("GITLAB_RATE_LIMIT", 429,
                               RetryAfterSeconds(response.headers)))

GraphqlTry(outcome, att, n) ==
  IF outcome.rejected THEN Throw(PlainError("TypeError"))
  ELSE IF outcome.status = 429 THEN RateLimited(outcome, att, n)
  ELSE IF outcome.status = 401 \/ outcome.status = 403
    THEN Throw(createGitLabError("GITLAB_AUTH_ERR", outcome.status, Undefined))
  ELSE IF ~Ok(outcome)
    THEN Throw(createGitLabError("GITLAB_UNKNOWN_ERR", outcome.status, Undefined))
  ELSE IF ~outcome.body.valid THEN Throw(PlainError("SyntaxError"))
  ELSE IF outcome.body.hasErrors /\ Len(outcome.body.errors) > 0
    THEN Throw(createGitLabError("GITLAB_GRAPHQL_ERR", outcome.status, Undefined))
  ELSE IF outcome.body.data = Null
    THEN Throw(createGitLabError("GITLAB_GRAPHQL_ERR", outcome.status, Undefined))
  ELSE Return(outcome.body.data)

RestTry(outcome, att, n) ==
  IF outcome.rejected THEN Throw(PlainError("TypeError"))
  ELSE IF outcome.status = 429 THEN RateLimited(outcome, att, n)
  ELSE IF outcome.status = 401 \/ outcome.status = 403
    THEN Throw(createGitLabError("GITLAB_AUTH_ERR", outcome.status, Undefined))
  ELSE IF outcome.status = 404
    THEN Throw(createGitLabError("GITLAB_NOT_FOUND", 404, Undefined))
  ELSE IF ~Ok(outcome)
    THEN Throw(createGitLabError("GITLAB_UNKNOWN_ERR", outcome.status, Undefined))
  ELSE IF ~outcome.body.valid THEN Throw(PlainError("SyntaxError"))
  ELSE Return(outcome.body.data)

PostTry(outcome, att, n) ==
  IF outcome.rejected THEN Throw(PlainError("TypeError"))
  ELSE IF outcome.status = 429 THEN RateLimited(outcome, att, n)
  ELSE IF outcome.status = 401 \/ outcome.status = 403
    THEN Throw(createGitLabError("GITLAB_AUTH_ERR", outcome.status, Undefined))
  ELSE IF outcome.status = 400
    THEN Throw(createGitLabError("GITLAB_UNKNOWN_ERR", 400, Undefined))
  ELSE IF outcome.status = 404
    THEN Throw(createGitLabError("GITLAB_NOT_FOUND", 404, Undefined))
  ELSE IF ~Ok(outcome)
    THEN Throw(createGitLabError("GITLAB_UNKNOWN_ERR", outcome.status, Undefined))
  ELSE IF ~outcome.body.valid THEN Throw(PlainError("SyntaxError"))
  ELSE Return(outcome.body.data)

TryBlock(t, outcome, att, n) ==
  CASE t = "graphql" -> GraphqlTry(outcome, att, n)
    [] t = "rest" -> RestTry(outcome, att, n)
    [] t = "post" -> PostTry(outcome, att, n)

(***************************************************************************)
(* The catch block: which errors are rethrown at once.                     *)
(***************************************************************************)
\* Mutant: authentication errors are retried like any other.
GraphqlNonRetryable_NoAuth(error) ==
  HasCode(error) /\ error.code \in {"GITLAB_RATE_LIMIT"}

GraphqlNonRetryable(error) ==
  HasCode(error) /\ error.code \in {"GITLAB_AUTH_ERR", "GITLAB_RATE_LIMIT"}

RestNonRetryable(error) ==
  HasCode(error)
  /\ error.code \in {"GITLAB_AUTH_ERR", "GITLAB_NOT_FOUND", "GITLAB_RATE_LIMIT"}

PostNonRetryable(error) ==
  HasCode(error)
  /\ (\/ error.code \in {"GITLAB_AUTH_ERR", "GITLAB_NOT_FOUND", "GITLAB_RATE_LIMIT"}
      \/ error.statusCode = 400)

NonRetryable(t, error) ==
  CASE t = "graphql" -> GraphqlNonRetryable(error)
    [] t = "rest" -> RestNonRetryable(error)
    [] t = "post" -> PostNonRetryable(error)

\* Mutant: every exhausted call is reported as a network error.
AfterLoop_AlwaysNet(error) ==
  createGitLabError("GITLAB_NET_ERR", Undefined, Undefined)

\* The code after the loop: the last error as it is when it carries a code,
\* a network error otherwise.
AfterLoop(error) ==
  IF HasCode(error) THEN error
  ELSE createGitLabError("GITLAB_NET_ERR", Undefined, Undefined)

(***************************************************************************)
(* State of one transport call.                                            *)
(***************************************************************************)
VARIABLES
  transport,   \* which of graphqlRequest, restRequest, restPost is running
  retries,     \* options.retries
  retryDelay,  \* options.retryDelay
  attempt,     \* the loop counter
  lastError,   \* the lastError local
  pc,          \* "fetch": about to call fetch; "sleep": awaiting a timer;
               \* "done": returned or thrown
  sleepMs,     \* the delay handed to the most recent setTimeout
  history,     \* the outcomes of the network calls made so far, in order
  result       \* what the call gave its caller

transportVars == <<transport, retries, retryDelay, attempt, lastError, pc,
                   sleepMs, history, result>>

(***************************************************************************)
(* State of one fetchAllCommits / fetchAllDiscussions call.                *)
(***************************************************************************)
VARIABLES
  walk,        \* "commits" or "discussions": which of the two functions runs
  allItems,    \* allCommits / allDiscussions
  cursor,      \* cursor
  hasMore,     \* hasMore
  requests,    \* the cursor argument of every page request made, in order
  pages,       \* the pages received, in order
  pgPc,        \* "first": before the first page; "loop": in the while loop;
               \* "done": returned or thrown
  pgResult,    \* what the call gave its caller
  lastGql      \* what graphqlRequest gave the most recent page request

paginatorVars == <<walk, allItems, cursor, hasMore, requests, pages, pgPc,
                   pgResult, lastGql>>

(***************************************************************************)
(* State of one MRCache.                                                   *)
(***************************************************************************)
VARIABLES
  cacheOptions, \* this.options
  cache,        \* this.cache: the main space
  diffCache,    \* this.diffCache: the diff space
  now,          \* the clock the two LRUCache instances read
  callers,      \* the fingerprints the callers of this cache use
  schedule,     \* the clock readings at which the callers act
  lastOp,       \* the most recent operation, its argument and what it returned
  mainSet,      \* per fingerprint: the last set not yet deleted or cleared
  diffSet,      \* the same for setDiffs
  mainOrder,    \* the fingerprints held in the main space by last access
  diffOrder     \* the same for the diff space

cacheVars == <<cacheOptions, cache, diffCache, now, callers, schedule, lastOp,
               mainSet, diffSet, mainOrder, diffOrder>>

(***************************************************************************)
(* State of the getMergeRequestView calls made against that cache.         *)
(***************************************************************************)
VARIABLES
  calls,        \* per call: its options, its position and what it gave
  heap,         \* the MergeRequestView objects, by reference
  fetchedViews  \* per reference: the view as normalizeMR returned it

viewVars == <<calls, heap, fetchedViews>>

(***************************************************************************)
(* State of the module-level default cache and of the MRCache instances    *)
(* of the process.                                                         *)
(***************************************************************************)
VARIABLES
  defaultCache, \* let defaultCache: null, or the reference of an MRCache
  instances,    \* the MRCache objects constructed so far, by reference
  lastCall      \* the most recent call: its arguments, the cache it used

processVars == <<defaultCache, instances, lastCall>>

(***************************************************************************)
(* State of the get_merge_request_diffs tool of the server.                *)
(***************************************************************************)
VARIABLES
  changes       \* the most recent call of the tool and what it did

toolVars == <<changes>>

(***************************************************************************)
(* State of one pollMergeRequest closure and of its caller.                *)
(***************************************************************************)
VARIABLES
  lastUpdatedAt, \* let lastUpdatedAt: null, or the updatedAt last recorded
  intervalId,    \* let intervalId: null, or the timer of setInterval
  isRunning,     \* let isRunning
  handlers,      \* whether options.onUpdate and options.onError are given
  controller,    \* "none", "returned" once the controller is out, "stopped"
  inflight,      \* the getMergeRequestView promises not yet settled
  started,       \* how many of them poll has started
  observed,      \* the updatedAt of the views fetched, as they arrived
  updates,       \* the calls of onUpdate
  errors,        \* the calls of onError
  lastPoll       \* the most recent step of the poller

pollVars == <<lastUpdatedAt, intervalId, isRunning, handlers, controller,
              inflight, started, observed, updates, errors, lastPoll>>

(***************************************************************************)
(* State of one call of normalizeMR.                                       *)
(***************************************************************************)
VARIABLES
  raw,          \* the MRQueryResponse handed to normalizeMR
  normalized    \* what the call gave: nothing yet, a view, or an exception

normVars == <<raw, normalized>>

(***************************************************************************)
(* restPaginate (api/rest.ts): one call.                                   *)
(***************************************************************************)
VARIABLES
  restPath,     \* path: whether it holds a '?' already
  perPage,      \* options.perPage
  restPage,     \* let page
  restHasMore,  \* let hasMore
  allResults,   \* allResults
  restRequests, \* the paginatedPath of every restRequest made, in order
  restPages,    \* what the requests that returned gave, in order
  restPc,       \* "idle", "loop" or "done"
  restResult    \* what the call gave: nothing yet, the array, or an exception

restVars == <<restPath, perPage, restPage, restHasMore, allResults,
              restRequests, restPages, restPc, restResult>>

vars == <<transportVars, paginatorVars, cacheVars, viewVars, processVars,
          toolVars, pollVars, normVars, restVars>>
outsideTransport == <<paginatorVars, cacheVars, viewVars, processVars,
                      toolVars, pollVars, normVars,
  restVars>>
outsidePaginator == <<transportVars, cacheVars, viewVars, processVars,
                      toolVars, pollVars, normVars,
  restVars>>
outsideCache == <<transportVars, paginatorVars, viewVars, processVars,
                  toolVars, pollVars, normVars,
  restVars>>
outsideView == <<transportVars, paginatorVars, processVars, toolVars,
                 pollVars, normVars,
  restVars>>
outsideProcess == <<transportVars, paginatorVars, cacheVars, viewVars,
                    toolVars, pollVars, normVars,
  restVars>>
outsideTool == <<transportVars, paginatorVars, viewVars, processVars,
                 pollVars, normVars,
  restVars>>
outsidePoll == <<transportVars, paginatorVars, cacheVars, viewVars,
                 processVars, toolVars, normVars,
  restVars>>
outsideRest == <<transportVars, paginatorVars, cacheVars, viewVars,
                 processVars, toolVars, pollVars, normVars>>
outsideNorm == <<transportVars, paginatorVars, cacheVars, viewVars,
                 processVars, toolVars, pollVars,
  restVars>>

Transports == {"graphql", "rest", "post"}
NoError == [name |-> "none"]
Pending == [kind |-> "pending", value |-> Null, error |-> NoError]
Returned(value) == [kind |-> "returned", value |-> value, error |-> NoError]
Thrown(error) == [kind |-> "thrown", value |-> Null, error |-> error]

\* Math.random() * 1000 and Math.random() * 500, at the ends of their ranges.
RateLimitJitters == {0, RateLimitJitterMs - 1}
BackoffJitters == {0, BackoffJitterMs - 1}

TransportInit ==
  /\ transport \in Transports
  /\ retries \in 0..MaxRetries
  /\ retryDelay \in {0, DefaultRetryDelay}
  /\ attempt = 0
  /\ lastError = NoError
  /\ pc = "fetch"
  /\ sleepMs = Undefined
  /\ history = <<>>
  /\ result = Pending

\* Mutant: one iteration too many.
LoopCondition_OffByOne(att, n) == att <= n + 1

\* for (...; attempt <= retries; ...)
LoopCondition(att, n) == att <= n

\* return, or throw out of the function.
Finish(res, err) ==
  /\ pc' = "done"
  /\ result' = res
  /\ lastError' = err
  /\ UNCHANGED attempt

\* attempt++ and the loop test; the code after the loop when the test fails.
Continue(err) ==
  /\ attempt' = attempt + 1
  /\ lastError' = err
  /\ IF LoopCondition(attempt + 1, retries)
     THEN pc' = "fetch" /\ result' = result
     ELSE pc' = "done" /\ result' = Thrown(AfterLoop(err))

\* The catch block.
Caught(error) ==
  IF NonRetryable(transport, error)
    THEN Finish(Thrown(error), error) /\ sleepMs' = Undefined
  ELSE IF AttemptsRemain(attempt, retries)
    THEN /\ \E jitter \in BackoffJitters :
              sleepMs' = BackoffDelay(retryDelay, attempt, jitter)
         /\ pc' = "sleep"
         /\ lastError' = error
         /\ UNCHANGED <<attempt, result>>
  ELSE Continue(error) /\ sleepMs' = Undefined

\* One iteration of the for loop, from the call of fetch to the first
\* suspension on a timer or to the end of the call.  sleepMs becomes the
\* delay of the timer this iteration awaits, Undefined when it awaits none.
Attempt(outcome) ==
  /\ pc = "fetch"
  /\ history' = Append(history, outcome)
  /\ LET step == TryBlock(transport, outcome, attempt, retries) IN
       CASE step.kind = "sleep429" ->
              /\ \E jitter \in RateLimitJitters :
                   sleepMs' = RateLimitDelay(step.secs, jitter)
              /\ pc' = "sleep"
              /\ UNCHANGED <<attempt, lastError, result>>
         [] step.kind = "return" ->
              Finish(Returned(step.value), lastError) /\ sleepMs' = Undefined
         [] step.kind = "throw" -> Caught(step.error)
  /\ UNCHANGED <<transport, retries, retryDelay>>
  /\ UNCHANGED outsideTransport

Fetch == \E outcome \in Outcomes(transport) : Attempt(outcome)

\* The timer of a backoff or rate-limit wait fires: continue.
TimerFires ==
  /\ pc = "sleep"
  /\ Continue(lastError)
  /\ UNCHANGED <<transport, retries, retryDelay, sleepMs, history>>
  /\ UNCHANGED outsideTransport

\* No transport call is running.
TransportIdle ==
  /\ transport = "graphql"
  /\ retries = 0
  /\ retryDelay = 0
  /\ attempt = 0
  /\ lastError = NoError
  /\ pc = "idle"
  /\ sleepMs = Undefined
  /\ history = <<>>
  /\ result = Pending

(***************************************************************************)
(* api/mergeRequest and api/pagination: one page of a connection.          *)
(***************************************************************************)
PageInfo(hasNextPage, endCursor) ==
  [hasNextPage |-> hasNextPage, endCursor |-> endCursor]

\* endCursor: string | null
EndCursors == {Null, "", "c1", "c2"}

\* The nodes of page number p with the given ids; title tells apart two
\* nodes that share an id.
Nodes(ids, p) == [k \in 1..Len(ids) |-> [id |-> ids[k], title |-> <<p, k>>]]

RECURSIVE SeqsUpTo(_, _)
SeqsUpTo(S, n) ==
  IF n = 0 THEN {<<>>}
  ELSE LET shorter == SeqsUpTo(S, n - 1) IN
         shorter \cup {Append(q, x) : q \in {r \in shorter : Len(r) = n - 1},
                                      x \in S}

\* The ids a server gives its nodes.
ItemIds == {1, 2}

IdSeqs == SeqsUpTo(ItemIds, MaxItems)

\* The data of an MRQueryResponse as far as a walk reads it.
MRData(hasProject, hasMergeRequest, nodes, pageInfo) ==
  [project |-> hasProject, mergeRequest |-> hasMergeRequest,
   nodes |-> nodes, pageInfo |-> pageInfo]

NoData == MRData(FALSE, FALSE, <<>>, PageInfo(FALSE, Null))

GqlReturned(data) == [kind |-> "returned", data |-> data, error |-> NoError]
GqlThrown(error) == [kind |-> "thrown", data |-> NoData, error |-> error]
GqlNone == [kind |-> "none", data |-> NoData, error |-> NoError]

\* What graphqlRequest can give getMergeRequest for page number p.
PageResults(p) ==
  {GqlReturned(MRData(TRUE, TRUE, Nodes(ids, p), PageInfo(h, c))) :
     ids \in IdSeqs, h \in BOOLEAN, c \in EndCursors}
  \cup {GqlReturned(NoData),
        GqlReturned(MRData(TRUE, FALSE, <<>>, PageInfo(FALSE, Null)))}
  \cup {GqlThrown(createGitLabError("GITLAB_RATE_LIMIT", 429, 60)),
        GqlThrown(createGitLabError("GITLAB_UNKNOWN_ERR", 500, Undefined)),
        GqlThrown(PlainError("Error"))}

\* Mutant: the catch block wraps every error it sees.
getMergeRequest_WrapAll(gql) ==
  IF gql.kind = "thrown" \/ ~gql.data.project \/ ~gql.data.mergeRequest
  THEN GqlThrown(createGitLabError("GITLAB_UNKNOWN_ERR", Undefined, Undefined))
  ELSE gql

\* getMergeRequest: the data, GITLAB_NOT_FOUND when project or merge request
\* is missing; coded errors pass, others are wrapped as GITLAB_UNKNOWN_ERR.
getMergeRequest(gql) ==
  IF gql.kind = "thrown"
    THEN IF HasCode(gql.error) THEN gql
         ELSE GqlThrown(createGitLabError("GITLAB_UNKNOWN_ERR", Undefined,
                                          Undefined))
  ELSE IF ~gql.data.project
    THEN GqlThrown(createGitLabError("GITLAB_NOT_FOUND", Undefined, Undefined))
  ELSE IF ~gql.data.mergeRequest
    THEN GqlThrown(createGitLabError("GITLAB_NOT_FOUND", Undefined, Undefined))
  ELSE gql

\* fetchMoreCommits / fetchMoreDiscussions on the data getMergeRequest gave.
fetchMore(data) ==
  IF ~(data.project /\ data.mergeRequest)
  THEN [items |-> <<>>, pageInfo |-> PageInfo(FALSE, Null)]
  ELSE [items |-> [k \in 1..Len(data.nodes) |->
                     [id |-> data.nodes[k].id, title |-> data.nodes[k].title]],
        pageInfo |-> PageInfo(data.pageInfo.hasNextPage,
                              data.pageInfo.endCursor)]

\* Mutant: the filter is left out.
Filter_KeepAll(items, seen) == items

\* items.filter(...) of deduplicateById, seen being the ids met so far.
RECURSIVE Filter(_, _)
Filter(items, seen) ==
  IF items = <<>> THEN <<>>
  ELSE IF Head(items).id \in seen THEN Filter(Tail(items), seen)
  ELSE <<Head(items)>> \o Filter(Tail(items), seen \cup {Head(items).id})

deduplicateById(items) == Filter(items, {})

\* Mutant: the walk goes on whenever the page says there is more.
WhileCondition_IgnoreCursor(more, cur) == more

\* while (hasMore && cursor): null and '' are falsy.
WhileCondition(more, cur) == more /\ cur # Null /\ cur # ""

PgPending == [kind |-> "pending", items |-> <<>>, error |-> NoError]
PgReturned(items) == [kind |-> "returned", items |-> items, error |-> NoError]
PgThrown(error) == [kind |-> "thrown", items |-> <<>>, error |-> error]

PaginatorInit ==
  /\ walk \in {"commits", "discussions"}
  /\ allItems = <<>>
  /\ cursor = Null
  /\ hasMore = TRUE
  /\ requests = <<>>
  /\ pages = <<>>
  /\ pgPc = "first"
  /\ pgResult = PgPending
  /\ lastGql = GqlNone

\* No walk is running.
PaginatorIdle ==
  /\ walk = "commits"
  /\ allItems = <<>>
  /\ cursor = Null
  /\ hasMore = TRUE
  /\ requests = <<>>
  /\ pages = <<>>
  /\ pgPc = "idle"
  /\ pgResult = PgPending
  /\ lastGql = GqlNone

\* One page request with cursor argument arg and what follows it up to the
\* next request or the end of the call.
RequestPage(arg, gql) ==
  /\ requests' = Append(requests, arg)
  /\ lastGql' = gql
  /\ LET got == getMergeRequest(gql) IN
       IF got.kind = "thrown"
       THEN /\ pgPc' = "done"
            /\ pgResult' = PgThrown(got.error)
            /\ UNCHANGED <<allItems, cursor, hasMore, pages>>
       ELSE LET page == fetchMore(got.data) IN
              /\ pages' = Append(pages, page)
              /\ allItems' = allItems \o page.items
              /\ cursor' = page.pageInfo.endCursor
              /\ hasMore' = page.pageInfo.hasNextPage
              /\ IF WhileCondition(page.pageInfo.hasNextPage,
                                   page.pageInfo.endCursor)
                 THEN pgPc' = "loop" /\ pgResult' = pgResult
                 ELSE /\ pgPc' = "done"
                      /\ pgResult' =
                           PgReturned(deduplicateById(allItems \o page.items))
  /\ UNCHANGED walk
  /\ UNCHANGED outsidePaginator

\* const firstPage = await fetchMore...(fullPath, iid, '', options)
FirstPage ==
  /\ pgPc = "first"
  /\ \E gql \in PageResults(1) : RequestPage("", gql)

\* const page = await fetchMore...(fullPath, iid, cursor, options)
NextPage ==
  /\ pgPc = "loop"
  /\ Len(requests) < MaxPages
  /\ \E gql \in PageResults(Len(requests) + 1) : RequestPage(cursor, gql)

PaginatorNext == FirstPage \/ NextPage

(***************************************************************************)
(* utils/cache.ts: MRCache, two LRUCache instances (main space and diff    *)
(* space) of the lru-cache package.  A space is the sequence of its        *)
(* entries from least to most recently used; an entry is a key, a value    *)
(* and the clock reading of its last set.  Values are object references.   *)
(***************************************************************************)
DEFAULT_OPTIONS == [maxSize |-> 100, ttlMs |-> 30000, diffTtlMs |-> 120000]

\* The constructor arguments tried: none, or { maxSize: n }.
NoOptions == <<>>
CacheOptions == {NoOptions} \cup {[maxSize |-> n] : n \in 1..MaxCacheSize}

\* { ...DEFAULT_OPTIONS, ...options }
MergeOptions(options) ==
  [f \in DOMAIN DEFAULT_OPTIONS |->
     IF f \in DOMAIN options THEN options[f] ELSE DEFAULT_OPTIONS[f]]

\* The (fullPath, iid) pairs used, as strings of characters.
\* Project paths and iids as GitLab issues them, and two pairs of strings
\* that hold the separator themselves: ("g:mr:1", "2") and ("g", "1:mr:2").
WellFormed == {<<<<"g", "/", "a">>, <<"1">>>>, <<<<"g", "/", "a">>, <<"2">>>>,
               <<<<"g", "/", "b">>, <<"1">>>>}
Separated == {<<<<"g", ":", "m", "r", ":", "1">>, <<"2">>>>,
              <<<<"g">>, <<"1", ":", "m", "r", ":", "2">>>>}
Fingerprints == WellFormed \cup Separated
NoFingerprint == <<<<>>, <<>>>>

\* getKey: `project:${fullPath}:mr:${iid}`
getKey(fullPath, iid) ==
  <<"p", "r", "o", "j", "e", "c", "t", ":">> \o fullPath
    \o <<":", "m", "r", ":">> \o iid

KeyOf(fp) == getKey(fp[1], fp[2])

\* The views and diffs stored, as object references.
Views == {1, 2}
Diffs == {3}

\* The clock readings at which operations happen (performance.now(), ms):
\* around the two TTLs as seen from a set at 1 or at 2.
ClockReadings ==
  {1, 2, DEFAULT_OPTIONS.ttlMs + 2, DEFAULT_OPTIONS.diffTtlMs + 2}

\* The workloads tried: every fingerprint at one instant, or one fingerprint
\* over the whole span of clock readings.
Workloads ==
  {[callers |-> WellFormed, schedule |-> {1}],
   [callers |-> {<<<<"g", "/", "a">>, <<"1">>>>}, schedule |-> ClockReadings]}

Entry(key, value, start) == [key |-> key, value |-> value, start |-> start]

RECURSIVE Without(_, _)
Without(space, key) ==
  IF space = <<>> THEN <<>>
  ELSE IF Head(space).key = key THEN Without(Tail(space), key)
  ELSE <<Head(space)>> \o Without(Tail(space), key)

Has(space, key) == \E i \in 1..Len(space) : space[i].key = key
Find(space, key) ==
  space[CHOOSE i \in 1..Len(space) : space[i].key = key]

\* lru-cache isStale: ttl and a start are set and more than ttl has passed.
IsStale(entry, ttl, t) == ttl # 0 /\ entry.start # 0 /\ t - entry.start > ttl

\* Mutant: a read restarts the entry's TTL clock (updateAgeOnGet).
LruGetHit_UpdateAge(space, key, t) ==
  Without(space, key) \o <<Entry(key, Find(space, key).value, t)>>

\* LRUCache.get on a live entry: the entry becomes the most recently used,
\* its start is left alone.
LruGetHit(space, key, t) ==
  Without(space, key) \o <<Find(space, key)>>

\* Mutant: get finds nothing.
LruGet_Miss(space, key, ttl, t) == [space |-> space, value |-> Undefined]

\* LRUCache.get: a missing key is undefined; a stale entry is deleted and
\* undefined; a live entry is returned.
LruGet(space, key, ttl, t) ==
  IF ~Has(space, key) THEN [space |-> space, value |-> Undefined]
  ELSE IF IsStale(Find(space, key), ttl, t)
  THEN [space |-> Without(space, key), value |-> Undefined]
  ELSE [space |-> LruGetHit(space, key, t), value |-> Find(space, key).value]

\* Mutant: a full space drops its most recently used entry.
Evict_Newest(space) == SubSeq(space, 1, Len(space) - 1)

\* LRUCache evict: the least recently used entry goes, stale or not.
Evict(space) == Tail(space)

\* Mutant: set leaves an entry that is already there as it is.
LruSet_KeepOld(space, key, value, max, ttl, t) ==
  LET start == IF ttl # 0 THEN t ELSE 0 IN
    IF Has(space, key) THEN space
    ELSE IF Len(space) = max
    THEN Tail(space) \o <<Entry(key, value, start)>>
    ELSE space \o <<Entry(key, value, start)>>

\* LRUCache.set: an existing key gets the new value and a new start and
\* becomes the most recently used; a new key is appended, after an eviction
\* when the space holds max entries.
LruSet(space, key, value, max, ttl, t) ==
  LET start == IF ttl # 0 THEN t ELSE 0 IN
    IF Has(space, key)
    THEN Without(space, key) \o <<Entry(key, value, start)>>
    ELSE IF Len(space) = max
    THEN Evict(space) \o <<Entry(key, value, start)>>
    ELSE space \o <<Entry(key, value, start)>>

LruDelete(space, key) == Without(space, key)
LruClear(space) == <<>>

KeysOf(space) == {space[i].key : i \in 1..Len(space)}

\* What the operations leave behind for the properties to speak about.
\* mainSet / diffSet: value and clock reading of the last set, and whether
\* the entry was read at a later clock reading; NotSet after a delete, a
\* clear or an eviction.
NotSet == [value |-> Undefined, at |-> 0, read |-> FALSE]
WasSet(value, at) == [value |-> value, at |-> at, read |-> FALSE]
WasRead(set, t) == [set EXCEPT !.read = set.read \/ (set.at # 0 /\ t > set.at)]

\* Mutant: both counts are those of the main space.
getStats_MainTwice(main, diff) == [size |-> Len(main), diffSize |-> Len(main)]

\* getStats: { size: this.cache.size, diffSize: this.diffCache.size }
getStats(main, diff) == [size |-> Len(main), diffSize |-> Len(diff)]
NoStats == [size |-> Undefined, diffSize |-> Undefined]

\* lastOp: for a set, full says that the fingerprint was new to a space
\* holding maxSize fingerprints, lru is then the least recently accessed
\* fingerprint, and evicted the fingerprints that left the space; for a
\* delete, held names the spaces that held the fingerprint; for a getStats,
\* stats is what it returned.
NoOp ==
  [op |-> "none", fp |-> NoFingerprint, arg |-> Undefined, ret |-> Undefined,
   evicted |-> {}, lru |-> NoFingerprint, full |-> FALSE, held |-> {},
   stats |-> NoStats]
Op(op, fp, arg, ret) ==
  [op |-> op, fp |-> fp, arg |-> arg, ret |-> ret,
   evicted |-> {}, lru |-> NoFingerprint, full |-> FALSE, held |-> {},
   stats |-> NoStats]
SetOp(op, fp, arg, evicted, order, max) ==
  LET full == /\ fp \notin {order[i] : i \in 1..Len(order)}
              /\ Len(order) = max
  IN [op |-> op, fp |-> fp, arg |-> arg, ret |-> Undefined,
      evicted |-> evicted,
      lru |-> IF full \/ evicted # {} THEN Head(order) ELSE NoFingerprint,
      full |-> full, held |-> {}, stats |-> NoStats]
Held(fp, main, diff) ==
  (IF \E i \in 1..Len(main) : main[i] = fp THEN {"main"} ELSE {})
  \cup (IF \E i \in 1..Len(diff) : diff[i] = fp THEN {"diff"} ELSE {})

RECURSIVE Drop(_, _)
Drop(order, fps) ==
  IF order = <<>> THEN <<>>
  ELSE IF Head(order) \in fps THEN Drop(Tail(order), fps)
  ELSE <<Head(order)>> \o Drop(Tail(order), fps)

Touch(order, fp) == Drop(order, {fp}) \o <<fp>>

EvictedBy(before, after, fp) ==
  {f \in Fingerprints : /\ f # fp
                        /\ KeyOf(f) \in KeysOf(before)
                        /\ KeyOf(f) \notin KeysOf(after)}

MarkEvicted(set, fps) ==
  [f \in Fingerprints |-> IF f \in fps THEN NotSet ELSE set[f]]

CacheNew(options, workload) ==
  /\ cacheOptions = MergeOptions(options)
  /\ cache = <<>>
  /\ diffCache = <<>>
  /\ now = 1
  /\ callers = workload.callers
  /\ schedule = workload.schedule
  /\ lastOp = NoOp
  /\ mainSet = [f \in Fingerprints |-> NotSet]
  /\ diffSet = [f \in Fingerprints |-> NotSet]
  /\ mainOrder = <<>>
  /\ diffOrder = <<>>

CacheInit ==
  \E options \in CacheOptions, workload \in Workloads :
    CacheNew(options, workload)

\* No cache operation happens.
CacheIdle == CacheNew(NoOptions, [callers |-> {}, schedule |-> {}])

\* Mutant: a get that finds nothing drops the fingerprint's diffs as well.
MainGet_PurgesBoth(fp) ==
  LET got == LruGet(cache, KeyOf(fp), cacheOptions.ttlMs, now) IN
    /\ cache' = got.space
    /\ diffCache' = IF got.value = Undefined
                    THEN LruDelete(diffCache, KeyOf(fp)) ELSE diffCache
    /\ lastOp' = Op("get", fp, Undefined, got.value)
    /\ mainSet' = [mainSet EXCEPT ![fp] = WasRead(mainSet[fp], now)]
    /\ mainOrder' = IF got.value # Undefined THEN Touch(mainOrder, fp)
                    ELSE Drop(mainOrder, {fp})
    /\ UNCHANGED <<cacheOptions, now, callers, schedule, diffSet, diffOrder>>

\* MRCache.get
MainGet(fp) ==
  LET got == LruGet(cache, KeyOf(fp), cacheOptions.ttlMs, now) IN
    /\ cache' = got.space
    /\ lastOp' = Op("get", fp, Undefined, got.value)
    /\ mainSet' = [mainSet EXCEPT ![fp] = WasRead(mainSet[fp], now)]
    /\ mainOrder' = IF got.value # Undefined THEN Touch(mainOrder, fp)
                    ELSE Drop(mainOrder, {fp})
    /\ UNCHANGED <<cacheOptions, diffCache, now, callers, schedule, diffSet,
                   diffOrder>>

CacheGet(fp) == MainGet(fp) /\ UNCHANGED outsideCache

\* MRCache.set
MainSet(fp, value) ==
  LET after == LruSet(cache, KeyOf(fp), value, cacheOptions.maxSize,
                      cacheOptions.ttlMs, now)
      gone == EvictedBy(cache, after, fp)
  IN
    /\ cache' = after
    /\ lastOp' = SetOp("set", fp, value, gone, mainOrder, cacheOptions.maxSize)
    /\ mainSet' = [MarkEvicted(mainSet, gone) EXCEPT ![fp] = WasSet(value, now)]
    /\ mainOrder' = Touch(Drop(mainOrder, gone), fp)
    /\ UNCHANGED <<cacheOptions, diffCache, now, callers, schedule, diffSet,
                   diffOrder>>

CacheSet(fp, value) == MainSet(fp, value) /\ UNCHANGED outsideCache

\* MRCache.getDiffs
CacheGetDiffs(fp) ==
  LET got == LruGet(diffCache, KeyOf(fp), cacheOptions.diffTtlMs, now) IN
    /\ diffCache' = got.space
    /\ lastOp' = Op("getDiffs", fp, Undefined, got.value)
    /\ diffSet' = [diffSet EXCEPT ![fp] = WasRead(diffSet[fp], now)]
    /\ diffOrder' = IF got.value # Undefined THEN Touch(diffOrder, fp)
                    ELSE Drop(diffOrder, {fp})
    /\ UNCHANGED <<cacheOptions, cache, now, callers, schedule, mainSet,
                   mainOrder>>
    /\ UNCHANGED outsideCache

\* MRCache.setDiffs
CacheSetDiffs(fp, diffs) ==
  LET after == LruSet(diffCache, KeyOf(fp), diffs, cacheOptions.maxSize,
                      cacheOptions.diffTtlMs, now)
      gone == EvictedBy(diffCache, after, fp)
  IN
    /\ diffCache' = after
    /\ lastOp' = SetOp("setDiffs", fp, diffs, gone, diffOrder,
                       cacheOptions.maxSize)
    /\ diffSet' = [MarkEvicted(diffSet, gone) EXCEPT ![fp] = WasSet(diffs, now)]
    /\ diffOrder' = Touch(Drop(diffOrder, gone), fp)
    /\ UNCHANGED <<cacheOptions, cache, now, callers, schedule, mainSet,
                   mainOrder>>
    /\ UNCHANGED outsideCache

\* Mutant: delete forgets the diff space.
CacheDelete_MainOnly(fp) ==
  /\ cache' = LruDelete(cache, KeyOf(fp))
  /\ lastOp' = [Op("delete", fp, Undefined, Undefined) EXCEPT
                  !.held = Held(fp, mainOrder, diffOrder)]
  /\ mainSet' = [mainSet EXCEPT ![fp] = NotSet]
  /\ diffSet' = [diffSet EXCEPT ![fp] = NotSet]
  /\ mainOrder' = Drop(mainOrder, {fp})
  /\ diffOrder' = Drop(diffOrder, {fp})
  /\ UNCHANGED <<cacheOptions, diffCache, now, callers, schedule>>
  /\ UNCHANGED outsideCache

\* MRCache.delete
CacheDelete(fp) ==
  /\ cache' = LruDelete(cache, KeyOf(fp))
  /\ diffCache' = LruDelete(diffCache, KeyOf(fp))
  /\ lastOp' = [Op("delete", fp, Undefined, Undefined) EXCEPT
                  !.held = Held(fp, mainOrder, diffOrder)]
  /\ mainSet' = [mainSet EXCEPT ![fp] = NotSet]
  /\ diffSet' = [diffSet EXCEPT ![fp] = NotSet]
  /\ mainOrder' = Drop(mainOrder, {fp})
  /\ diffOrder' = Drop(diffOrder, {fp})
  /\ UNCHANGED <<cacheOptions, now, callers, schedule>>
  /\ UNCHANGED outsideCache

\* MRCache.clear
CacheClear ==
  /\ cache' = LruClear(cache)
  /\ diffCache' = LruClear(diffCache)
  /\ lastOp' = Op("clear", NoFingerprint, Undefined, Undefined)
  /\ mainSet' = [f \in Fingerprints |-> NotSet]
  /\ diffSet' = [f \in Fingerprints |-> NotSet]
  /\ mainOrder' = <<>>
  /\ diffOrder' = <<>>
  /\ UNCHANGED <<cacheOptions, now, callers, schedule>>
  /\ UNCHANGED outsideCache

\* MRCache.getStats
CacheGetStats ==
  /\ lastOp' = [Op("getStats", NoFingerprint, Undefined, Undefined) EXCEPT
                  !.stats = getStats(cache, diffCache)]
  /\ UNCHANGED <<cacheOptions, cache, diffCache, now, callers, schedule,
                 mainSet, diffSet, mainOrder, diffOrder>>
  /\ UNCHANGED outsideCache

\* Time passes between two operations.
ClockAdvances ==
  /\ \E t \in schedule : t > now /\ now' = t
  /\ lastOp' = NoOp
  /\ UNCHANGED <<cacheOptions, cache, diffCache, callers, schedule, mainSet,
                 diffSet, mainOrder, diffOrder>>
  /\ UNCHANGED outsideCache

CacheNext ==
  \/ \E fp \in callers : CacheGet(fp)
  \/ \E fp \in callers, value \in Views : CacheSet(fp, value)
  \/ \E fp \in callers : CacheGetDiffs(fp)
  \/ \E fp \in callers, diffs \in Diffs : CacheSetDiffs(fp, diffs)
  \/ \E fp \in callers : CacheDelete(fp)
  \/ CacheClear
  \/ CacheGetStats
  \/ ClockAdvances

(***************************************************************************)
(* api/mergeRequestView.ts: getMergeRequestView, and the get_merge_request *)
(* handler of server.ts that calls it.  A call runs from its entry to the  *)
(* await of getMergeRequest in one step and from the settling of that      *)
(* promise to its end in another; calls may overlap.                       *)
(***************************************************************************)
CallIds == 1..MaxCalls

\* The payload of the merge request query as far as the view depends on it:
\* updatedAt, and whether mergeRequest.author is there.
ViewData(hasProject, hasMergeRequest, updatedAt, hasAuthor) ==
  [project |-> hasProject, mergeRequest |-> hasMergeRequest,
   updatedAt |-> updatedAt, author |-> hasAuthor]

\* An Error that carries a code field which is not a GitLabErrorCode, as
\* the system errors of Node do.
ForeignError ==
  [name |-> "Error", code |-> "ECONNRESET", statusCode |-> Undefined,
   retryAfter |-> Undefined]

\* What graphqlRequest can give getMergeRequest.
ViewResults ==
  {GqlReturned(ViewData(TRUE, TRUE, 1, TRUE)),
   GqlReturned(ViewData(TRUE, TRUE, 1, FALSE)),
   GqlThrown(createGitLabError("GITLAB_RATE_LIMIT", 429, 60)),
   GqlThrown(PlainError("Error")),
   GqlThrown(ForeignError)}

\* A MergeRequestView: updatedAt, and diffs, empty as normalizeMR leaves it.
View(updatedAt, diffs) == [updatedAt |-> updatedAt, diffs |-> diffs]
NoView == View(Undefined, Undefined)
NoDiffs == 0
RestDiffs == 1

Normalized(view) == [kind |-> "returned", view |-> view, error |-> NoError]
NotNormalized(error) == [kind |-> "thrown", view |-> NoView, error |-> error]

\* normalizeMR: an Error without project or mergeRequest, a TypeError when
\* normalizeUser reads a null author, the view otherwise.
normalizeMR(data) ==
  IF ~(data.project /\ data.mergeRequest) THEN NotNormalized(PlainError("Error"))
  ELSE IF ~data.author THEN NotNormalized(PlainError("TypeError"))
  ELSE Normalized(View(data.updatedAt, NoDiffs))

\* The try block up to the view: getMergeRequest, then normalizeMR.
FetchView(gql) ==
  LET got == getMergeRequest(gql) IN
    IF got.kind = "thrown" THEN NotNormalized(got.error)
    ELSE normalizeMR(got.data)

\* The catch block: an error with a code field as it is, any other wrapped.
CatchView(error) ==
  IF HasCode(error) THEN error
  ELSE createGitLabError("GITLAB_UNKNOWN_ERR", Undefined, Undefined)

\* Mutant: forceRefresh does not keep the call from the cache.
ReadsCache_IgnoreForce(useCache, forceRefresh) == useCache

\* if (useCache && !forceRefresh)
ReadsCache(useCache, forceRefresh) == useCache /\ ~forceRefresh

\* Mutant: the view is cached whatever useCache says.
WritesCache_Always(useCache) == TRUE

\* if (useCache)
WritesCache(useCache) == useCache

\* The fingerprints and clock readings of the calls: two fingerprints at one
\* instant, or one fingerprint before and after its TTL.
ViewWorkloads ==
  {[callers |-> {<<<<"g", "/", "a">>, <<"1">>>>, <<<<"g", "/", "a">>, <<"2">>>>},
    schedule |-> {1}],
   [callers |-> {<<<<"g", "/", "a">>, <<"1">>>>},
    schedule |-> {1, DEFAULT_OPTIONS.ttlMs + 2}]}

\* liveBefore: the view last set for fp and still within its TTL.
LiveView(fp) ==
  IF mainSet[fp] # NotSet /\ now - mainSet[fp].at <= cacheOptions.ttlMs
  THEN mainSet[fp].value ELSE Undefined

IdleCall ==
  [pc |-> "idle", fp |-> NoFingerprint, forceRefresh |-> FALSE,
   useCache |-> FALSE, at |-> 0, doneBefore |-> {}, liveBefore |-> Undefined,
   read |-> FALSE, fetched |-> FALSE, wrote |-> FALSE, kind |-> "pending",
   ref |-> Undefined, seen |-> NoView, raised |-> NoError, error |-> NoError,
   assigned |-> FALSE]

ViewInit ==
  /\ calls = [c \in CallIds |-> IdleCall]
  /\ heap = <<>>
  /\ fetchedViews = <<>>

ViewIdle == ViewInit

\* Mutant: a call that finds another call fetching does not fetch itself.
CacheHit_Joins(cached) ==
  cached # Undefined \/ \E d \in CallIds : calls[d].pc = "fetching"

\* if (cached) return cached
CacheHit(cached) == cached # Undefined

\* getMergeRequestView from its entry to the return of the cached view or
\* to the await of getMergeRequest.
ViewCall(c, fp, forceRefresh, useCache) ==
  /\ calls[c].pc = "idle"
  /\ \A d \in CallIds : d < c => calls[d].pc # "idle"
  /\ LET reads == ReadsCache(useCache, forceRefresh)
         cached == IF reads
                   THEN LruGet(cache, KeyOf(fp), cacheOptions.ttlMs, now).value
                   ELSE Undefined
         entered == [IdleCall EXCEPT
                       !.fp = fp, !.forceRefresh = forceRefresh,
                       !.useCache = useCache, !.at = now,
                       !.doneBefore = {d \in CallIds : calls[d].pc = "done"},
                       !.liveBefore = LiveView(fp),
                       !.read = reads]
     IN
       /\ IF reads THEN MainGet(fp) ELSE UNCHANGED cacheVars
       /\ IF CacheHit(cached)
          THEN calls' = [calls EXCEPT ![c] =
                           [entered EXCEPT !.pc = "done",
                                           !.kind = "returned",
                                           !.ref = cached,
                                           !.seen = IF cached \in DOMAIN heap
                                                    THEN heap[cached]
                                                    ELSE NoView]]
          ELSE calls' = [calls EXCEPT ![c] =
                           [entered EXCEPT !.pc = "fetching",
                                           !.fetched = TRUE]]
       /\ UNCHANGED <<heap, fetchedViews>>
  /\ UNCHANGED outsideView

\* getMergeRequestView from the settling of getMergeRequest to its end.
ViewSettles(c, gql) ==
  /\ calls[c].pc = "fetching"
  /\ LET got == FetchView(gql)
         view == Len(heap) + 1
     IN
       IF got.kind = "returned"
       THEN /\ heap' = Append(heap, got.view)
            /\ fetchedViews' = Append(fetchedViews, got.view)
            /\ IF WritesCache(calls[c].useCache)
               THEN MainSet(calls[c].fp, view)
               ELSE UNCHANGED cacheVars
            /\ calls' = [calls EXCEPT ![c].pc = "done",
                                      ![c].kind = "returned",
                                      ![c].wrote = WritesCache(calls[c].useCache),
                                      ![c].ref = view,
                                      ![c].seen = got.view]
       ELSE /\ calls' = [calls EXCEPT ![c].pc = "done",
                                      ![c].kind = "thrown",
                                      ![c].raised = got.error,
                                      ![c].error = CatchView(got.error)]
            /\ UNCHANGED <<heap, fetchedViews>>
            /\ UNCHANGED cacheVars
  /\ UNCHANGED outsideView

\* The get_merge_request handler with includeDiffs: view.diffs = changes.
HandlerAssigns(c) ==
  /\ calls[c].pc = "done"
  /\ calls[c].kind = "returned"
  /\ ~calls[c].assigned
  /\ heap' = [heap EXCEPT ![calls[c].ref].diffs = RestDiffs]
  /\ calls' = [calls EXCEPT ![c].assigned = TRUE]
  /\ UNCHANGED fetchedViews
  /\ UNCHANGED cacheVars
  /\ UNCHANGED outsideView

ViewNext ==
  \/ \E c \in CallIds, fp \in callers, forceRefresh \in BOOLEAN,
        useCache \in BOOLEAN : ViewCall(c, fp, forceRefresh, useCache)
  \/ \E c \in CallIds, gql \in ViewResults : ViewSettles(c, gql)
  \/ \E c \in CallIds : HandlerAssigns(c)
  \/ ClockAdvances

\* The fingerprint the calls of the process ask for.
ProcessCallers == {<<<<"g", "/", "a">>, <<"1">>>>}

(***************************************************************************)
(* getDefaultCache (src/utils/cache.ts) and the cache option of            *)
(* getMergeRequestView (src/api/mergeRequestView.ts).  The process holds   *)
(* the MRCache objects its callers constructed and the one behind          *)
(* defaultCache; a call of getMergeRequestView works on the instance its   *)
(* options name, or on the default one.                                    *)
(***************************************************************************)
NoInstance == 0

\* new MRCache(options)
MRCache(options) ==
  [options |-> MergeOptions(options), cache |-> <<>>, diffCache |-> <<>>]

\* Mutant: every call constructs a new default cache.
getDefaultCache_Fresh(dc, insts, options) ==
  [defaultCache |-> Len(insts) + 1,
   instances |-> Append(insts, MRCache(options))]

\* if (!defaultCache) defaultCache = new MRCache(options); return defaultCache
getDefaultCache(dc, insts, options) ==
  IF dc = NoInstance
  THEN [defaultCache |-> Len(insts) + 1,
        instances |-> Append(insts, MRCache(options))]
  ELSE [defaultCache |-> dc, instances |-> insts]

\* const { cache = getDefaultCache() } = options: the default is evaluated
\* only when options.cache is undefined.
ResolveCache(passed, dc, insts) ==
  IF passed # Undefined
  THEN [defaultCache |-> dc, instances |-> insts, cache |-> passed]
  ELSE LET shared == getDefaultCache(dc, insts, NoOptions) IN
         [defaultCache |-> shared.defaultCache,
          instances |-> shared.instances, cache |-> shared.defaultCache]

\* What a cache was last given for a fingerprint: the view, and the
\* commitsFirst it was fetched with.
NotStored ==
  [cache |-> NoInstance, fp |-> NoFingerprint, view |-> Undefined,
   first |-> Undefined]

StoredFor(st, i, fp) ==
  IF \E e \in st : e.cache = i /\ e.fp = fp
  THEN CHOOSE e \in st : e.cache = i /\ e.fp = fp
  ELSE NotStored

Store(st, i, fp, view, first) ==
  {e \in st : ~(e.cache = i /\ e.fp = fp)}
    \cup {[cache |-> i, fp |-> fp, view |-> view, first |-> first]}

NoCall ==
  [op |-> "none", pc |-> "idle", passed |-> Undefined, cache |-> NoInstance,
   fp |-> NoFingerprint, useCache |-> FALSE, ret |-> Undefined,
   views |-> 0, asked |-> FALSE, forceRefresh |-> FALSE,
   commitsFirst |-> Undefined, liveBefore |-> NotStored, stored |-> {}]

\* The MRCache objects constructed by callers, not by getDefaultCache.
OwnInstances == Len(instances) - (IF defaultCache = NoInstance THEN 0 ELSE 1)

ProcessInit ==
  /\ defaultCache = NoInstance
  /\ instances = <<>>
  /\ lastCall = NoCall

ProcessIdle == ProcessInit

\* A caller constructs a cache of its own.
NewCache(options) ==
  /\ lastCall.pc # "fetching"
  /\ OwnInstances < MaxInstances
  /\ instances' = Append(instances, MRCache(options))
  /\ lastCall' = [NoCall EXCEPT !.op = "new", !.ret = Len(instances) + 1,
                                !.views = lastCall.views,
                                !.asked = lastCall.asked,
                                !.stored = lastCall.stored]
  /\ UNCHANGED defaultCache
  /\ UNCHANGED outsideProcess

\* A caller asks for the default cache.
GetDefaultCache(options) ==
  /\ lastCall.pc # "fetching"
  /\ LET shared == getDefaultCache(defaultCache, instances, options) IN
       /\ Len(shared.instances) <= MaxInstances + 1
       /\ defaultCache' = shared.defaultCache
       /\ instances' = shared.instances
       /\ lastCall' = [NoCall EXCEPT !.op = "getDefaultCache",
                                     !.ret = shared.defaultCache,
                                     !.views = lastCall.views,
                                     !.asked = TRUE,
                                     !.stored = lastCall.stored]
  /\ UNCHANGED outsideProcess

\* getMergeRequestView with options.cache = passed and
\* options.commitsFirst = commitsFirst, from its entry to the return of the
\* cached view or to the await of getMergeRequest.
SharedCall(fp, forceRefresh, useCache, passed, commitsFirst) ==
  /\ lastCall.pc # "fetching"
  /\ lastCall.views < MaxCalls
  /\ LET resolved == ResolveCache(passed, defaultCache, instances)
         used == resolved.cache
     IN
       /\ Len(resolved.instances) <= MaxInstances + 1
       /\ defaultCache' = resolved.defaultCache
       /\ LET mr == resolved.instances[used]
              reads == ReadsCache(useCache, forceRefresh)
              got == IF reads
                     THEN LruGet(mr.cache, KeyOf(fp), mr.options.ttlMs, now)
                     ELSE [space |-> mr.cache, value |-> Undefined]
          IN
            /\ instances' = [resolved.instances EXCEPT
                               ![used].cache = got.space]
            /\ lastCall' =
                 [op |-> "view",
                  pc |-> IF got.value # Undefined THEN "done" ELSE "fetching",
                  passed |-> passed, cache |-> used, fp |-> fp,
                  useCache |-> useCache, ret |-> got.value,
                  views |-> lastCall.views,
                  asked |-> lastCall.asked \/ passed = Undefined,
                  forceRefresh |-> forceRefresh,
                  commitsFirst |-> commitsFirst,
                  liveBefore |-> StoredFor(lastCall.stored, used, fp),
                  stored |-> lastCall.stored]
  /\ UNCHANGED outsideProcess

\* That call from the settling of getMergeRequest to its end.
SharedSettles(gql) ==
  /\ lastCall.pc = "fetching"
  /\ LET got == FetchView(gql)
         used == lastCall.cache
         mr == instances[used]
         view == lastCall.views + 1
     IN
       IF got.kind = "returned"
       THEN /\ instances' =
                 IF WritesCache(lastCall.useCache)
                 THEN [instances EXCEPT ![used].cache =
                         LruSet(mr.cache, KeyOf(lastCall.fp), view,
                                mr.options.maxSize, mr.options.ttlMs, now)]
                 ELSE instances
            /\ lastCall' =
                 [lastCall EXCEPT
                    !.pc = "done", !.ret = view, !.views = view,
                    !.stored = IF WritesCache(lastCall.useCache)
                               THEN Store(@, used, lastCall.fp, view,
                                          lastCall.commitsFirst)
                               ELSE @]
       ELSE /\ instances' = instances
            /\ lastCall' = [lastCall EXCEPT !.pc = "done"]
  /\ UNCHANGED defaultCache
  /\ UNCHANGED outsideProcess

ProcessNext ==
  \/ \E options \in CacheOptions : NewCache(options)
  \/ \E options \in CacheOptions : GetDefaultCache(options)
  \/ \E fp \in ProcessCallers, forceRefresh \in BOOLEAN, useCache \in BOOLEAN,
        passed \in {Undefined} \cup (1..Len(instances)) :
       SharedCall(fp, forceRefresh, useCache, passed, Undefined)
  \/ \E gql \in ViewResults : SharedSettles(gql)

\* The get_merge_request tool up to the return of getMergeRequestView:
\* commitsFirst: includeCommits ? 50 : 0, forceRefresh as given, the cache
\* and useCache left to their defaults.
GetMergeRequestTool(fp, includeCommits, forceRefresh) ==
  SharedCall(fp, forceRefresh, TRUE, Undefined,
             IF includeCommits THEN 50 ELSE 0)

HandlerNext ==
  \/ \E fp \in WellFormed, includeCommits \in BOOLEAN,
        forceRefresh \in BOOLEAN :
       GetMergeRequestTool(fp, includeCommits, forceRefresh)
  \/ \E gql \in ViewResults : SharedSettles(gql)


(***************************************************************************)
(* The get_merge_request_diffs tool (src/server.ts) over getMRChangesRest  *)
(* (src/api/mergeRequestRest.ts), in a process whose MRCache is used by    *)
(* other callers as well.                                                  *)
(***************************************************************************)
\* What restRequest gives for GET /projects/:id/merge_requests/:iid/changes.
ChangesResults ==
  {GqlReturned(3), GqlReturned(4),
   GqlThrown(createGitLabError("GITLAB_RATE_LIMIT", 429, 60))}

\* getMRChangesRest: the path is requested, the answer handed on.
getMRChangesRest(rest) == rest

\* The diffs last set for fp and still within the diff TTL.
LiveDiffs(fp) ==
  IF diffSet[fp] # NotSet /\ now - diffSet[fp].at <= cacheOptions.diffTtlMs
  THEN diffSet[fp].value ELSE Undefined

NoChanges ==
  [fp |-> NoFingerprint, liveBefore |-> Undefined, requests |-> 0,
   kind |-> "pending", ret |-> Undefined]

ToolInit == changes = NoChanges

ToolIdle == ToolInit

\* case 'get_merge_request_diffs': await getMRChangesRest(projectPath, iid),
\* the changes are the tool's answer.
DiffsTool(fp, rest) ==
  /\ changes.requests < MaxCalls
  /\ LET got == getMRChangesRest(rest) IN
       changes' = [fp |-> fp, liveBefore |-> LiveDiffs(fp),
                   requests |-> changes.requests + 1,
                   kind |-> got.kind,
                   ret |-> IF got.kind = "returned" THEN got.data
                           ELSE Undefined]
  /\ lastOp' = [NoOp EXCEPT !.op = "diffs", !.fp = fp]
  /\ UNCHANGED <<cacheOptions, cache, diffCache, now, callers, schedule,
                 mainSet, diffSet, mainOrder, diffOrder>>
  /\ UNCHANGED outsideTool

ToolNext ==
  \/ CacheNext /\ UNCHANGED toolVars
  \/ \E fp \in callers, rest \in ChangesResults : DiffsTool(fp, rest)

\* One merge request, at two instants within the diff TTL.
ToolWorkload ==
  [callers |-> {<<<<"g", "/", "a">>, <<"1">>>>}, schedule |-> {1, 2}]

(***************************************************************************)
(* pollMergeRequest (src/api/polling.ts).  setInterval calls poll whenever *)
(* the interval has passed, whether or not an earlier poll still awaits    *)
(* getMergeRequestView; the callbacks onUpdate and onError return.         *)
(***************************************************************************)
NoBaseline == 0
NoInterval == 0
PollTimes == {1, 2}

\* What graphqlRequest can give the getMergeRequestView of a poll.
PollResults ==
  {GqlReturned(ViewData(TRUE, TRUE, u, TRUE)) : u \in PollTimes}
    \cup {GqlThrown(createGitLabError("GITLAB_RATE_LIMIT", 429, 60)),
          GqlThrown(PlainError("Error"))}

\* if (!isRunning) return
PollStarts(running) == running

\* Mutant: every fetched view is a change, baseline or not.
Changed_NoBaseline(last, updatedAt) == last # updatedAt

\* lastUpdatedAt && lastUpdatedAt !== view.updatedAt
Changed(last, updatedAt) == last # NoBaseline /\ last # updatedAt

\* Mutant: a failed fetch ends the polling and forgets the baseline.
PollCatch_Stops(p, error) ==
  [lastUpdatedAt |-> NoBaseline, intervalId |-> NoInterval,
   isRunning |-> FALSE, reported |-> error]

\* The catch block of poll: the error goes to onError, the variables of the
\* closure stay as they are.
PollCatch(p, error) ==
  [lastUpdatedAt |-> p.lastUpdatedAt, intervalId |-> p.intervalId,
   isRunning |-> p.isRunning, reported |-> error]

\* Mutant: stop clears the interval and leaves the flag.
stop_ClearsOnly(p) ==
  [lastUpdatedAt |-> p.lastUpdatedAt, intervalId |-> NoInterval,
   isRunning |-> p.isRunning]

\* stop: isRunning = false; clearInterval(intervalId); intervalId = null
stop(p) ==
  [lastUpdatedAt |-> p.lastUpdatedAt, intervalId |-> NoInterval,
   isRunning |-> FALSE]

Poller ==
  [lastUpdatedAt |-> lastUpdatedAt, intervalId |-> intervalId,
   isRunning |-> isRunning]

NoPoll ==
  [op |-> "none", id |-> 0, kind |-> "pending", error |-> NoError,
   afterStop |-> FALSE]

NoHandlers == [onUpdate |-> FALSE, onError |-> FALSE]

PollInit ==
  /\ lastUpdatedAt = NoBaseline
  /\ intervalId = NoInterval
  /\ isRunning = FALSE
  /\ handlers = NoHandlers
  /\ controller = "none"
  /\ inflight = {}
  /\ started = 0
  /\ observed = <<>>
  /\ updates = <<>>
  /\ errors = <<>>
  /\ lastPoll = NoPoll

PollIdle == PollInit

\* pollMergeRequest: poll() once, setInterval, isRunning = true, and the
\* controller is returned.
PollMergeRequest(onUpdate, onError) ==
  /\ controller = "none"
  /\ handlers' = [onUpdate |-> onUpdate, onError |-> onError]
  /\ IF PollStarts(isRunning)
     THEN inflight' = {1} /\ started' = 1
     ELSE UNCHANGED <<inflight, started>>
  /\ intervalId' = 1
  /\ isRunning' = TRUE
  /\ controller' = "returned"
  /\ lastPoll' = [NoPoll EXCEPT !.op = "pollMergeRequest"]
  /\ UNCHANGED <<lastUpdatedAt, observed, updates, errors>>
  /\ UNCHANGED outsidePoll

\* The interval passes: poll up to its await.
Tick ==
  /\ intervalId # NoInterval
  /\ started < MaxPolls
  /\ IF PollStarts(isRunning)
     THEN /\ inflight' = inflight \cup {started + 1}
          /\ started' = started + 1
     ELSE UNCHANGED <<inflight, started>>
  /\ lastPoll' = [NoPoll EXCEPT !.op = "tick", !.id = started + 1]
  /\ UNCHANGED <<lastUpdatedAt, intervalId, isRunning, handlers, controller,
                 observed, updates, errors>>
  /\ UNCHANGED outsidePoll

\* getMergeRequestView settles: poll from its await to its end.
PollSettles(id, gql) ==
  /\ id \in inflight
  /\ inflight' = inflight \ {id}
  /\ LET got == FetchView(gql) IN
       IF got.kind = "returned"
       THEN /\ updates' =
                 IF Changed(lastUpdatedAt, got.view.updatedAt)
                      /\ handlers.onUpdate
                 THEN Append(updates, [updatedAt |-> got.view.updatedAt,
                                       at |-> Len(observed) + 1])
                 ELSE updates
            /\ lastUpdatedAt' = got.view.updatedAt
            /\ observed' = Append(observed, got.view.updatedAt)
            /\ lastPoll' = [NoPoll EXCEPT !.op = "settle", !.id = id,
                              !.kind = "returned",
                              !.afterStop = (controller = "stopped")]
            /\ UNCHANGED <<intervalId, isRunning, errors>>
       ELSE LET caught == PollCatch(Poller, CatchView(got.error)) IN
              /\ lastUpdatedAt' = caught.lastUpdatedAt
              /\ intervalId' = caught.intervalId
              /\ isRunning' = caught.isRunning
              /\ errors' = IF handlers.onError
                           THEN Append(errors, caught.reported)
                           ELSE errors
              /\ lastPoll' = [NoPoll EXCEPT !.op = "settle", !.id = id,
                                !.kind = "thrown",
                                !.error = CatchView(got.error),
                                !.afterStop = (controller = "stopped")]
              /\ UNCHANGED <<observed, updates>>
  /\ UNCHANGED <<handlers, controller, started>>
  /\ UNCHANGED outsidePoll

\* The caller calls stop() of the controller.
Stop ==
  /\ controller = "returned"
  /\ LET stopped == stop(Poller) IN
       /\ lastUpdatedAt' = stopped.lastUpdatedAt
       /\ intervalId' = stopped.intervalId
       /\ isRunning' = stopped.isRunning
  /\ controller' = "stopped"
  /\ lastPoll' = [NoPoll EXCEPT !.op = "stop"]
  /\ UNCHANGED <<handlers, inflight, started, observed, updates, errors>>
  /\ UNCHANGED outsidePoll

PollNext ==
  \/ \E onUpdate \in BOOLEAN, onError \in BOOLEAN :
       PollMergeRequest(onUpdate, onError)
  \/ Tick
  \/ \E id \in 1..MaxPolls, gql \in PollResults : PollSettles(id, gql)
  \/ Stop

(***************************************************************************)
(* normalizeMR (src/api/normalize.ts) field by field.  A JavaScript value  *)
(* is a pair of its type and its text.                                     *)
(***************************************************************************)
JsNull == <<"null", "">>
JsUndefined == <<"undefined", "">>
JsString(text) == <<"string", text>>
JsNumber(text) == <<"number", text>>
JsBoolean(text) == <<"boolean", text>>

\* The values the || operator takes for false.
Falsy(v) ==
  v \in {JsNull, JsUndefined, JsString(""), JsNumber("0"),
         JsBoolean("false")}

\* value || undefined
OrUndefined(v) == IF Falsy(v) THEN JsUndefined ELSE v

\* note.position ? { oldLine: ... || undefined, ... } : undefined, with
\* oldLine standing for the four fields of the position.
NoPosition == [present |-> FALSE, oldLine |-> JsUndefined]
normalizePosition(position) ==
  IF position.present
  THEN [present |-> TRUE, oldLine |-> OrUndefined(position.oldLine)]
  ELSE NoPosition

\* The nullable fields of the view as lines 27-126 build them.
normalizeFields(mr) ==
  [description |-> OrUndefined(mr.description),
   mergedAt |-> OrUndefined(mr.mergedAt),
   avatarUrl |-> OrUndefined(mr.avatarUrl),
   duration |-> OrUndefined(mr.duration),
   resolved |-> OrUndefined(mr.resolved),
   position |-> normalizePosition(mr.position)]

\* The payloads tried: with or without project and mergeRequest, and the
\* nullable fields null, at a value the server sends for "nothing", or set.
RawFields ==
  [description : {JsNull, JsString(""), JsString("text")},
   mergedAt : {JsNull, JsString("2024-01-01T00:00:00Z")},
   avatarUrl : {JsNull, JsString("https://gitlab/a.png")},
   duration : {JsNull, JsNumber("0"), JsNumber("42")},
   resolved : {JsNull, JsBoolean("false"), JsBoolean("true")},
   position : {[present |-> FALSE, oldLine |-> JsNull],
               [present |-> TRUE, oldLine |-> JsNull],
               [present |-> TRUE, oldLine |-> JsNumber("7")]}]

NullFields ==
  [description |-> JsNull, mergedAt |-> JsNull, avatarUrl |-> JsNull,
   duration |-> JsNull, resolved |-> JsNull,
   position |-> [present |-> FALSE, oldLine |-> JsNull]]

RawPayloads ==
  {[data |-> ViewData(TRUE, TRUE, 1, TRUE), mr |-> f] : f \in RawFields}
    \cup {[data |-> ViewData(TRUE, FALSE, 1, TRUE), mr |-> NullFields],
          [data |-> ViewData(FALSE, FALSE, 1, TRUE), mr |-> NullFields]}

NotCalled ==
  [kind |-> "pending", error |-> NoError, fields |-> NullFields]

NormInit ==
  /\ raw \in RawPayloads
  /\ normalized = NotCalled

NormIdle ==
  /\ raw = [data |-> ViewData(FALSE, FALSE, 1, TRUE), mr |-> NullFields]
  /\ normalized = NotCalled

\* normalizeMR(raw)
Normalize ==
  /\ normalized.kind = "pending"
  /\ LET got == normalizeMR(raw.data) IN
       normalized' =
         [kind |-> got.kind, error |-> got.error,
          fields |-> IF got.kind = "returned" THEN normalizeFields(raw.mr)
                     ELSE NullFields]
  /\ UNCHANGED raw
  /\ UNCHANGED outsideNorm

NormNext == Normalize

(***************************************************************************)
(* restPaginate (api/rest.ts).  What restRequest gives is an array of      *)
(* items, a JSON value that is no array, or an exception.                  *)
(***************************************************************************)
RestItems == {1, 2}

JsonArray(items) == [array |-> TRUE, items |-> items]
JsonObject == [array |-> FALSE, items |-> <<>>]

\* What restRequest can give when per_page items were asked for: arrays of
\* up to per_page + 1 items, an object, or an exception.
RestResults(n) ==
  {GqlReturned(JsonArray(items)) : items \in SeqsUpTo(RestItems, n + 1)}
  \cup {GqlReturned(JsonObject)}
  \cup {GqlThrown(createGitLabError("GITLAB_NOT_FOUND", 404, Undefined)),
        GqlThrown(createGitLabError("GITLAB_NET_ERR", Undefined, Undefined))}

\* `${path}${separator}page=${page}&per_page=${perPage}`
paginatedPath(hasQuery, pageNo, n) ==
  [separator |-> IF hasQuery THEN "&" ELSE "?", page |-> pageNo,
   per_page |-> n]

\* Mutant: the walk goes on while pages are not empty.
HasMore_NonEmpty(results, n) == Len(results) > 0

\* hasMore = results.length === perPage
HasMore(results, n) == Len(results) = n

RestPending == [kind |-> "pending", items |-> <<>>, error |-> NoError]
RestReturned(items) == [kind |-> "returned", items |-> items, error |-> NoError]
RestThrown(error) == [kind |-> "thrown", items |-> <<>>, error |-> error]

\* restPaginate is entered: allResults = [], page = 1, hasMore = true.
RestInit ==
  /\ restPath \in BOOLEAN
  /\ perPage \in 1..MaxItems
  /\ restPage = 1
  /\ restHasMore = TRUE
  /\ allResults = <<>>
  /\ restRequests = <<>>
  /\ restPages = <<>>
  /\ restPc = "loop"
  /\ restResult = RestPending

\* No call of restPaginate is running.
RestIdle ==
  /\ restPath = FALSE
  /\ perPage = 1
  /\ restPage = 1
  /\ restHasMore = TRUE
  /\ allResults = <<>>
  /\ restRequests = <<>>
  /\ restPages = <<>>
  /\ restPc = "idle"
  /\ restResult = RestPending

\* One turn of while (hasMore): the request, what is done with its answer,
\* and the return when the loop ends with it.
RestPaginate(res) ==
  /\ restPc = "loop"
  /\ restHasMore
  /\ Len(restRequests) <= MaxPages
  /\ restRequests' =
       Append(restRequests, paginatedPath(restPath, restPage, perPage))
  /\ IF res.kind = "thrown"
     THEN /\ restPc' = "done"
          /\ restResult' = RestThrown(res.error)
          /\ UNCHANGED <<restPage, restHasMore, allResults, restPages>>
     ELSE /\ restPages' = Append(restPages, res.data)
          /\ IF res.data.array
             THEN /\ allResults' = allResults \o res.data.items
                  /\ restHasMore' = HasMore(res.data.items, perPage)
                  /\ restPage' = restPage + 1
             ELSE /\ restHasMore' = FALSE
                  /\ UNCHANGED <<allResults, restPage>>
          /\ IF restHasMore'
             THEN restPc' = "loop" /\ restResult' = restResult
             ELSE restPc' = "done" /\ restResult' = RestReturned(allResults')
  /\ UNCHANGED <<restPath, perPage>>
  /\ UNCHANGED outsideRest

RestNext == \E res \in RestResults(perPage) : RestPaginate(res)

PaginatorStart ==
  TransportIdle /\ PaginatorInit /\ CacheIdle /\ ViewIdle /\ ProcessIdle
    /\ ToolIdle /\ PollIdle /\ NormIdle
    /\ RestIdle

CacheStart ==
  TransportIdle /\ PaginatorIdle /\ CacheInit /\ ViewIdle /\ ProcessIdle
    /\ ToolIdle /\ PollIdle /\ NormIdle
    /\ RestIdle

ViewStart ==
  /\ TransportIdle
  /\ PaginatorIdle
  /\ \E workload \in ViewWorkloads : CacheNew(NoOptions, workload)
  /\ ViewInit
  /\ ProcessIdle /\ ToolIdle /\ PollIdle /\ NormIdle
    /\ RestIdle

SpecView == ViewStart /\ [][ViewNext]_vars

SpecCache == CacheStart /\ [][CacheNext]_vars

\* An MRCache whose callers pass strings that hold the separator.
KeysWorkload == [callers |-> Separated, schedule |-> {1, 2}]

KeysStart ==
  TransportIdle /\ PaginatorIdle /\ CacheNew(NoOptions, KeysWorkload)
    /\ ViewIdle /\ ProcessIdle /\ ToolIdle /\ PollIdle /\ NormIdle
    /\ RestIdle

ProcessStart ==
  TransportIdle /\ PaginatorIdle /\ CacheIdle /\ ViewIdle /\ ProcessInit
    /\ ToolIdle /\ PollIdle /\ NormIdle
    /\ RestIdle

ToolStart ==
  TransportIdle /\ PaginatorIdle /\ CacheNew(NoOptions, ToolWorkload)
    /\ ViewIdle /\ ProcessIdle /\ ToolInit /\ PollIdle /\ NormIdle
    /\ RestIdle

SpecTool == ToolStart /\ [][ToolNext]_vars

PollStart ==
  /\ TransportIdle
  /\ PaginatorIdle
  /\ CacheIdle
  /\ ViewIdle
  /\ ProcessIdle
  /\ ToolIdle
  /\ PollInit
  /\ NormIdle
  /\ RestIdle

SpecPoll == PollStart /\ [][PollNext]_vars

NormStart ==
  /\ TransportIdle
  /\ PaginatorIdle
  /\ CacheIdle
  /\ ViewIdle
  /\ ProcessIdle
  /\ ToolIdle
  /\ PollIdle
  /\ NormInit
  /\ RestIdle

RestStart ==
  /\ TransportIdle
  /\ PaginatorIdle
  /\ CacheIdle
  /\ ViewIdle
  /\ ProcessIdle
  /\ ToolIdle
  /\ PollIdle
  /\ NormIdle
  /\ RestInit

SpecRest == RestStart /\ [][RestNext]_vars

SpecNorm == NormStart /\ [][NormNext]_vars

SpecHandler == ProcessStart /\ [][HandlerNext]_vars

SpecProcess == ProcessStart /\ [][ProcessNext]_vars

SpecKeys == KeysStart /\ [][CacheNext]_vars

SpecPaginator == PaginatorStart /\ [][PaginatorNext]_vars

Init ==
  TransportInit /\ PaginatorIdle /\ CacheIdle /\ ViewIdle /\ ProcessIdle
    /\ ToolIdle /\ PollIdle /\ NormIdle
    /\ RestIdle

Next == Fetch \/ TimerFires

Spec == Init /\ [][Next]_vars

(***************************************************************************)
(* Vocabulary of the transport properties.                                 *)
(***************************************************************************)
Calls == Len(history)
LastOutcome == history[Len(history)]
HasStatus(o, status) == ~o.rejected /\ o.status = status
FailedWith(code) ==
  pc = "done" /\ result.kind = "thrown" /\ result.error.code = code

\* A 200 response that carries GraphQL errors or lacks data.
GraphQLErrorResponse(o) ==
  /\ HasStatus(o, 200)
  /\ o.body.valid
  /\ (o.body.hasErrors /\ o.body.errors # <<>>) \/ o.body.data = Null

\* A failure the generic policy retries: a rejected fetch, or a non-success
\* status other than 429, 401, 403 and 404.
GenericFailure(o) ==
  \/ o.rejected
  \/ o.status \in {400, 500}

\* A response that carries a payload.
SuccessResponse(t, o) ==
  /\ ~o.rejected
  /\ o.status \in {200, 201}
  /\ o.body.valid
  /\ t = "graphql" => ~GraphQLErrorResponse(o)

\* C1: in every transport, a 404 response ends the call with
\* GITLAB_NOT_FOUND and is the last network call of that call.
C1_NotFoundNoRetry ==
  \A i \in 1..Len(history) :
    HasStatus(history[i], 404) =>
      i = Len(history) /\ FailedWith("GITLAB_NOT_FOUND")

\* C2: in every transport, a 401 or 403 response ends the call with
\* GITLAB_AUTH_ERR carrying that status and is the last network call.
C2_AuthNoRetry ==
  \A i \in 1..Len(history) :
    (HasStatus(history[i], 401) \/ HasStatus(history[i], 403)) =>
      /\ i = Len(history)
      /\ FailedWith("GITLAB_AUTH_ERR")
      /\ result.error.statusCode = history[i].status

C2_Witness ==
  /\ pc = "done"
  /\ Len(history) = 2
  /\ retries = 2
  /\ HasStatus(LastOutcome, 403)
  /\ result.kind = "thrown"

\* C3: in graphqlRequest, a 200 response with a non-empty errors array or
\* without data ends the call with GITLAB_GRAPHQL_ERR at once: no backoff
\* timer is awaited and it is the last network call.
C3_GraphQLErrorNoRetry ==
  \A i \in 1..Len(history) :
    (transport = "graphql" /\ GraphQLErrorResponse(history[i])) =>
      /\ i = Len(history)
      /\ FailedWith("GITLAB_GRAPHQL_ERR")
      /\ sleepMs = Undefined

\* C4: a call makes at most retries + 1 network calls, a finished call has
\* made at least one, and with retries = 0 exactly one.
C4_CallCount ==
  /\ Calls <= retries + 1
  /\ pc = "done" => Calls >= 1
  /\ (pc = "done" /\ retries = 0) => Calls = 1

C4_Witness ==
  /\ pc = "done"
  /\ retries >= 2
  /\ Calls = retries + 1

\* C5: after a 429 on an attempt that is not the last, the call stays
\* pending and the timer awaited before the next network call is at least
\* R * 1000 ms, R being the Retry-After delta-seconds, 60 without header.
C5_RateLimitWait ==
  (/\ Len(history) > 0
   /\ HasStatus(LastOutcome, 429)
   /\ Len(history) - 1 < retries) =>
     /\ result.kind = "pending"
     /\ pc \in {"sleep", "fetch"}
     /\ sleepMs # Undefined
     /\ LastOutcome.headers = NoHeaders => sleepMs >= 60 * 1000
     /\ \A n \in 0..MaxRetryAfter :
          LastOutcome.headers = RetryAfterHeader(FormatDec(n)) =>
            sleepMs >= n * 1000

C5_Witness ==
  /\ pc = "fetch"
  /\ Len(history) = 1
  /\ HasStatus(LastOutcome, 429)
  /\ LastOutcome.headers = RetryAfterHeader(FormatDec(MaxRetryAfter))
  /\ sleepMs >= MaxRetryAfter * 1000

\* C6: a 429 on the last allowed attempt ends the call with
\* GITLAB_RATE_LIMIT, status 429 and retryAfter = R (60 without header);
\* no timer is awaited and no further network call is made.
C6_RateLimitExhausted ==
  \A i \in 1..Len(history) :
    (HasStatus(history[i], 429) /\ i - 1 = retries) =>
      /\ i = Len(history)
      /\ FailedWith("GITLAB_RATE_LIMIT")
      /\ result.error.statusCode = 429
      /\ sleepMs = Undefined
      /\ history[i].headers = NoHeaders => result.error.retryAfter = 60
      /\ \A n \in 0..MaxRetryAfter :
           history[i].headers = RetryAfterHeader(FormatDec(n)) =>
             result.error.retryAfter = n

C6_Witness ==
  /\ pc = "done"
  /\ retries >= 1
  /\ Len(history) = retries + 1
  /\ HasStatus(LastOutcome, 429)
  /\ LastOutcome.headers = RetryAfterHeader(FormatDec(MaxRetryAfter))
  /\ result.kind = "thrown"
  /\ result.error.retryAfter = MaxRetryAfter

C8_RetryThenSuccess ==
  \A k \in 0..(Len(history) - 1) :
    (/\ \A i \in 1..k : GenericFailure(history[i])
     /\ SuccessResponse(transport, history[k + 1])) =>
       /\ Len(history) = k + 1
       /\ k <= retries
       /\ pc = "done"
       /\ result = Returned(history[k + 1].body.data)

C8_Witness ==
  /\ pc = "done"
  /\ Len(history) = 3
  /\ history[1].rejected
  /\ HasStatus(history[2], 500)
  /\ SuccessResponse(transport, history[3])
  /\ result.kind = "returned"

(***************************************************************************)
(* Vocabulary of the paginator properties.                                 *)
(***************************************************************************)
RECURSIVE ConcatItems(_)
ConcatItems(ps) ==
  IF ps = <<>> THEN <<>> ELSE Head(ps).items \o ConcatItems(Tail(ps))

LastPage == pages[Len(pages)]
WalkReturned == pgPc = "done" /\ pgResult.kind = "returned"
DistinctIds(items) ==
  \A i, j \in 1..Len(items) : items[i].id = items[j].id => i = j

\* The positions of a sequence of items that hold the first item of an id.
FirstSeen(items) ==
  {k \in 1..Len(items) : \A m \in 1..(k - 1) : items[m].id # items[k].id}

\* Every request after the first carries the endCursor of the page before.
CursorChain ==
  /\ Len(requests) >= 1 => requests[1] = ""
  /\ \A i \in 2..Len(requests) : requests[i] = pages[i - 1].pageInfo.endCursor

\* C9 as stated: a walk returns the concatenation of the items of the pages
\* it received, in page order, each page after the first requested with the
\* endCursor of the page before, and only a page with hasNextPage = FALSE
\* ends it.
C9_PaginationCompleteness ==
  /\ CursorChain
  /\ WalkReturned =>
       /\ \A i \in 1..(Len(pages) - 1) : pages[i].pageInfo.hasNextPage
       /\ ~LastPage.pageInfo.hasNextPage
       /\ pgResult.items = ConcatItems(pages)

\* C9 amended: each page after the first is requested with the endCursor of
\* the page before, which reported hasNextPage = TRUE with a non-empty
\* endCursor; the walk ends at the first page that reports hasNextPage =
\* FALSE or has a null or empty endCursor; and when no id occurs twice in
\* the pages the result is the concatenation of their items in page order.
C9_PaginationAmended ==
  /\ CursorChain
  /\ \A i \in 1..(Len(requests) - 1) :
       /\ pages[i].pageInfo.hasNextPage
       /\ pages[i].pageInfo.endCursor \notin {Null, ""}
  /\ WalkReturned =>
       /\ Len(pages) = Len(requests)
       /\ \/ ~LastPage.pageInfo.hasNextPage
          \/ LastPage.pageInfo.endCursor \in {Null, ""}
       /\ DistinctIds(ConcatItems(pages)) =>
            pgResult.items = ConcatItems(pages)

C9_Witness ==
  /\ WalkReturned
  /\ Len(pages) = 2
  /\ pages[1].pageInfo.endCursor = "c2"
  /\ requests = <<"", "c2">>
  /\ ~LastPage.pageInfo.hasNextPage
  /\ Len(pages[1].items) = 1
  /\ Len(pages[2].items) = 1
  /\ DistinctIds(ConcatItems(pages))
  /\ pgResult.items = pages[1].items \o pages[2].items

\* C10: the result of a walk holds each id at most once, and it is the
\* items that are the first of their id among the received pages, in the
\* order in which they were received.
C10_Deduplicated ==
  WalkReturned =>
    LET all == ConcatItems(pages)
        out == pgResult.items
    IN /\ DistinctIds(out)
       /\ Len(out) = Cardinality(FirstSeen(all))
       /\ \A k \in FirstSeen(all) :
            out[Cardinality({m \in FirstSeen(all) : m <= k})] = all[k]

C10_Witness ==
  /\ WalkReturned
  /\ Len(pages) = 2
  /\ Len(pages[1].items) = 2
  /\ Len(pages[2].items) = 2
  /\ pages[1].items[1].id = 2
  /\ pages[1].items[2].id = 1
  /\ pages[2].items[1].id = 1
  /\ pages[2].items[2].id = 2
  /\ pgResult.items = pages[1].items

\* C11: a walk does not go on after a page that repeats the endCursor of the
\* page before it: an unchanged cursor ends the walk.
C11_RepeatedCursorEndsWalk ==
  (/\ Len(pages) >= 2
   /\ LastPage.pageInfo.endCursor = pages[Len(pages) - 1].pageInfo.endCursor) =>
     pgPc = "done"

\* C12: when a page fetch fails the walk is over and has thrown: an error
\* that carries a code is thrown as it is (same code, status, retryAfter),
\* a missing project or merge request as GITLAB_NOT_FOUND, and no items of
\* the pages received before are returned.
C12_PageFailureAborts ==
  /\ lastGql.kind = "thrown" =>
       /\ pgPc = "done"
       /\ pgResult.kind = "thrown"
       /\ pgResult.items = <<>>
       /\ Len(requests) = Len(pages) + 1
       /\ HasCode(lastGql.error) => pgResult.error = lastGql.error
       /\ ~HasCode(lastGql.error) =>
            pgResult.error.code = "GITLAB_UNKNOWN_ERR"
  /\ (lastGql.kind = "returned"
      /\ ~(lastGql.data.project /\ lastGql.data.mergeRequest)) =>
       /\ pgPc = "done"
       /\ pgResult.kind = "thrown"
       /\ pgResult.items = <<>>
       /\ pgResult.error.code = "GITLAB_NOT_FOUND"

C12_Witness ==
  /\ Len(pages) = 1
  /\ Len(pages[1].items) = 2
  /\ Len(requests) = 2
  /\ lastGql.kind = "thrown"
  /\ pgResult.kind = "thrown"
  /\ pgResult.error = createGitLabError("GITLAB_RATE_LIMIT", 429, 60)

(***************************************************************************)
(* MRCache properties.                                                     *)
(***************************************************************************)
\* C18: a get of a fingerprint whose last set was not followed by a delete,
\* a clear or its eviction, and is no more than the TTL old, returns the
\* value of that last set.
C18_GetReturnsLastSet ==
  (/\ lastOp.op = "get"
   /\ mainSet[lastOp.fp] # NotSet
   /\ now - mainSet[lastOp.fp].at <= 30000) =>
     lastOp.ret = mainSet[lastOp.fp].value

\* A second set at reading 2 is what a get at the last reading within its
\* TTL returns.
C18_Witness ==
  /\ lastOp.op = "get"
  /\ lastOp.ret = 2
  /\ mainSet[lastOp.fp] = [value |-> 2, at |-> 2, read |-> TRUE]
  /\ now = 30002

\* C19: a get more than 30000 ms after the last set of its fingerprint, and
\* a getDiffs more than 120000 ms after the last setDiffs, return undefined,
\* whether or not the entry was read in between.
C19_ExpiredIsAbsent ==
  /\ (/\ lastOp.op = "get"
      /\ mainSet[lastOp.fp] # NotSet
      /\ now - mainSet[lastOp.fp].at > 30000) => lastOp.ret = Undefined
  /\ (/\ lastOp.op = "getDiffs"
      /\ diffSet[lastOp.fp] # NotSet
      /\ now - diffSet[lastOp.fp].at > 120000) => lastOp.ret = Undefined

\* Set at 1, read later, absent at 30002, and the diffs set at 1 are still
\* held.
C19_Witness ==
  /\ lastOp.op = "get"
  /\ lastOp.ret = Undefined
  /\ mainSet[lastOp.fp].at = 1
  /\ mainSet[lastOp.fp].read
  /\ now = 30002
  /\ diffSet[lastOp.fp].at = 1
  /\ Len(diffCache) = 1

\* C20: a set evicts exactly when its fingerprint is new to a space that
\* holds maxSize fingerprints, and then the one evicted is the least
\* recently accessed of that space.
C20_EvictsLeastRecentlyUsed ==
  lastOp.op \in {"set", "setDiffs"} =>
    IF lastOp.full THEN lastOp.evicted = {lastOp.lru}
    ELSE lastOp.evicted = {}

C20_Witness ==
  /\ lastOp.op = "set"
  /\ cacheOptions.maxSize = 2
  /\ lastOp.full
  /\ lastOp.evicted = {lastOp.lru}
  /\ Len(cache) = 2
  /\ cache[1].key # KeyOf(lastOp.fp)
  /\ cache[1].value = 2

(***************************************************************************)
(* getMergeRequestView properties.                                         *)
(***************************************************************************)
\* C13: a call with useCache and without forceRefresh that finds a live
\* entry for its fingerprint returns that view without fetching; of the
\* first two calls, made one after the other for one fingerprint no more
\* than the TTL apart, the first fetches and the second does not.
C13_CacheHitNoFetch ==
  /\ \A c \in CallIds :
       (/\ calls[c].pc # "idle"
        /\ calls[c].useCache
        /\ ~calls[c].forceRefresh
        /\ calls[c].liveBefore # Undefined) =>
          /\ calls[c].pc = "done"
          /\ calls[c].kind = "returned"
          /\ calls[c].ref = calls[c].liveBefore
          /\ ~calls[c].fetched
  /\ (/\ calls[2].pc # "idle"
      /\ calls[1].useCache /\ ~calls[1].forceRefresh
      /\ calls[2].useCache /\ ~calls[2].forceRefresh
      /\ calls[2].fp = calls[1].fp
      /\ 1 \in calls[2].doneBefore
      /\ calls[1].kind = "returned"
      /\ calls[2].at - calls[1].at <= 30000) =>
        /\ calls[1].fetched
        /\ ~calls[2].fetched
        /\ calls[2].kind = "returned"
        /\ calls[2].ref = calls[1].ref

C13_Witness ==
  /\ calls[1].fetched
  /\ calls[1].kind = "returned"
  /\ calls[1].useCache /\ ~calls[1].forceRefresh
  /\ calls[2].pc = "done"
  /\ calls[2].useCache /\ ~calls[2].forceRefresh
  /\ calls[2].fp = calls[1].fp
  /\ ~calls[2].fetched
  /\ calls[2].ref = calls[1].ref

\* C14: a call with forceRefresh does not read the cache and fetches, and
\* the view it returns is neither the cached one nor one handed out before.
C14_ForceRefreshFetches ==
  \A c \in CallIds :
    (calls[c].pc # "idle" /\ calls[c].forceRefresh) =>
      /\ calls[c].fetched
      /\ ~calls[c].read
      /\ calls[c].kind = "returned" =>
           /\ calls[c].ref # calls[c].liveBefore
           /\ \A d \in calls[c].doneBefore : calls[d].ref # calls[c].ref

\* A forceRefresh call made while the cache held a live view of its
\* fingerprint.
C14_Witness ==
  \E c \in CallIds :
    /\ calls[c].forceRefresh
    /\ calls[c].useCache
    /\ calls[c].liveBefore # Undefined
    /\ calls[c].kind = "returned"
    /\ calls[c].fetched
    /\ calls[c].ref # calls[c].liveBefore

\* C15: the step in which a fetch succeeds leaves the view in the cache
\* under the call's fingerprint when useCache is true and leaves the cache
\* as it was when useCache is false; a call with useCache false does not
\* read the cache either.
C15_WriteThrough ==
  [][\A c \in CallIds :
       /\ (/\ calls[c].pc = "fetching"
           /\ calls'[c].pc = "done"
           /\ calls'[c].kind = "returned") =>
             IF calls[c].useCache
             THEN /\ mainSet'[calls[c].fp] = WasSet(calls'[c].ref, now)
                  /\ Has(cache', KeyOf(calls[c].fp))
                  /\ Find(cache', KeyOf(calls[c].fp)).value = calls'[c].ref
                  /\ \A f \in Fingerprints \ {calls[c].fp} :
                       mainSet'[f] = mainSet[f]
             ELSE cacheVars' = cacheVars
       /\ (/\ calls[c].pc = "idle"
           /\ calls'[c].pc # "idle"
           /\ ~calls'[c].useCache) =>
             /\ cacheVars' = cacheVars
             /\ ~calls'[c].read]_vars

\* A fetched view written through, and a later call without useCache that
\* left it there.
C15_Witness ==
  /\ calls[1].kind = "returned"
  /\ calls[1].useCache
  /\ calls[1].wrote
  /\ calls[2].kind = "returned"
  /\ ~calls[2].useCache
  /\ calls[2].fp = calls[1].fp
  /\ ~calls[2].wrote
  /\ Has(cache, KeyOf(calls[1].fp))
  /\ Find(cache, KeyOf(calls[1].fp)).value = calls[1].ref

\* C16: every error a call throws carries a GitLabErrorCode: the exception
\* itself when it already carried one, GITLAB_UNKNOWN_ERR otherwise.
C16_ErrorsClassified ==
  \A c \in CallIds :
    calls[c].kind = "thrown" =>
      /\ HasCode(calls[c].error)
      /\ calls[c].error.code \in GitLabErrorCode
      /\ IF HasCode(calls[c].raised)
            /\ calls[c].raised.code \in GitLabErrorCode
         THEN calls[c].error = calls[c].raised
         ELSE calls[c].error.code = "GITLAB_UNKNOWN_ERR"

\* C17: the view a cache hit returns is the view as it was fetched, whatever
\* the callers that got it before assigned to it.
C17_NoAliasing ==
  \A c \in CallIds :
    (calls[c].kind = "returned" /\ ~calls[c].fetched) =>
      calls[c].seen = fetchedViews[calls[c].ref]

\* C21: each space holds at most maxSize entries, and getStats returns the
\* number of fingerprints each space holds.
C21_BoundedAndCounted ==
  /\ Len(cache) <= cacheOptions.maxSize
  /\ Len(diffCache) <= cacheOptions.maxSize
  /\ lastOp.op = "getStats" =>
       lastOp.stats = [size |-> Len(mainOrder), diffSize |-> Len(diffOrder)]

\* getStats on a full main space and a smaller diff space.
C21_Witness ==
  /\ lastOp.op = "getStats"
  /\ cacheOptions.maxSize = 2
  /\ lastOp.stats = [size |-> 2, diffSize |-> 1]

\* What get / getDiffs would return for fp in the given space.
Lookup(space, fp, ttl, t) == LruGet(space, KeyOf(fp), ttl, t).value

\* The entry a space holds for fp, if any.
Held1(space, fp) ==
  IF Has(space, KeyOf(fp)) THEN <<Find(space, KeyOf(fp))>> ELSE <<>>

\* C22: after delete(fp), get(fp) and getDiffs(fp) find nothing, and both
\* spaces hold for every other fingerprint the entry they held before.
C22_DeleteFrame ==
  [][lastOp'.op = "delete" =>
       /\ Lookup(cache', lastOp'.fp, cacheOptions.ttlMs, now') = Undefined
       /\ Lookup(diffCache', lastOp'.fp, cacheOptions.diffTtlMs, now')
            = Undefined
       /\ \A f \in callers \ {lastOp'.fp} :
            /\ Held1(cache', f) = Held1(cache, f)
            /\ Held1(diffCache', f) = Held1(diffCache, f)]_vars

\* A delete of a fingerprint both spaces held, with others left in both.
C22_Witness ==
  /\ lastOp.op = "delete"
  /\ lastOp.held = {"main", "diff"}
  /\ Len(cache) = 2
  /\ Len(diffCache) = 2

\* C23: set and get leave the diff space as it is, setDiffs and getDiffs
\* the main space; and getDiffs returns the diffs last set for its
\* fingerprint within the diff TTL whatever became of the fingerprint in the
\* main space.
C23_SpacesIndependent ==
  /\ [][/\ lastOp'.op \in {"set", "get"} => diffCache' = diffCache
        /\ lastOp'.op \in {"setDiffs", "getDiffs"} => cache' = cache]_vars
  /\ []((/\ lastOp.op = "getDiffs"
         /\ diffSet[lastOp.fp] # NotSet
         /\ now - diffSet[lastOp.fp].at <= 120000) =>
           lastOp.ret = diffSet[lastOp.fp].value)

\* The diffs are served after the view of the same fingerprint has expired
\* and been dropped from the main space.
C23_Witness ==
  /\ lastOp.op = "getDiffs"
  /\ lastOp.ret = 3
  /\ now = 30002
  /\ diffSet[lastOp.fp].at = 1
  /\ mainSet[lastOp.fp].at = 1
  /\ mainSet[lastOp.fp].read
  /\ ~Has(cache, KeyOf(lastOp.fp))

\* C24: what a get returns for a pair (fullPath, iid) is what was last set
\* for that very pair.
C24_KeyPerFingerprint ==
  (lastOp.op = "get" /\ lastOp.ret # Undefined) =>
    /\ mainSet[lastOp.fp] # NotSet
    /\ lastOp.ret = mainSet[lastOp.fp].value

\* C25: getDefaultCache builds the default cache on its first call and
\* returns that instance, with the options of the first call, ever after;
\* getMergeRequestView works on it when no cache is passed, and a call that
\* is passed another cache leaves the default one alone, recency order of
\* its entries included.
C25_SharedDefault ==
  /\ [][/\ defaultCache # NoInstance =>
             /\ defaultCache' = defaultCache
             /\ instances'[defaultCache].options =
                  instances[defaultCache].options
        /\ lastCall'.op = "getDefaultCache" =>
             lastCall'.ret = defaultCache' /\ defaultCache' # NoInstance
        /\ (lastCall'.op = "view" /\ lastCall'.passed = Undefined) =>
             lastCall'.cache = defaultCache' /\ defaultCache' # NoInstance
        /\ (lastCall'.op = "view"
              /\ lastCall'.passed \notin {Undefined, defaultCache}) =>
             /\ lastCall'.cache = lastCall'.passed
             /\ defaultCache' = defaultCache
             /\ defaultCache # NoInstance =>
                  instances'[defaultCache] = instances[defaultCache]]_vars
  /\ [](defaultCache # NoInstance <=> lastCall.asked)

C25_Witness ==
  /\ lastCall.op = "view"
  /\ lastCall.pc = "done"
  /\ lastCall.passed = 2
  /\ defaultCache = 1
  /\ lastCall.ret = 2
  /\ instances[2].cache # <<>>
  /\ instances[1].cache # <<>>
  /\ instances[1].cache[1].value = 1

\* C26: the diffs operation leaves the main space alone, answers from a
\* live entry of the diff space without a request, and stores the diffs it
\* fetched under the fingerprint in the diff space.
C26_DiffsUseDiffSpace ==
  lastOp.op = "diffs" =>
    /\ changes.liveBefore # Undefined => changes.ret = changes.liveBefore
    /\ changes.kind = "returned" =>
         Lookup(diffCache, changes.fp, cacheOptions.diffTtlMs, now)
           = changes.ret

\* C27: every call of onUpdate is for a fetched view that was not the first
\* one fetched and whose updatedAt is not that of the view fetched before
\* it.
C27_SignalsOnlyChange ==
  \A i \in 1..Len(updates) :
    /\ updates[i].at > 1
    /\ updates[i].at <= Len(observed)
    /\ observed[updates[i].at] = updates[i].updatedAt
    /\ observed[updates[i].at - 1] # updates[i].updatedAt

C27_Witness ==
  /\ observed = <<1, 1, 2>>
  /\ updates = <<[updatedAt |-> 2, at |-> 3]>>

\* C28: a poll whose fetch fails hands the error to onError and leaves the
\* baseline, the flag and the interval as they were; as long as stop was
\* not called the interval is set and poll passes its guard.
C28_FailureKeepsCadence ==
  /\ [][(lastPoll'.op = "settle" /\ lastPoll'.kind = "thrown") =>
          /\ lastUpdatedAt' = lastUpdatedAt
          /\ isRunning' = isRunning
          /\ intervalId' = intervalId
          /\ updates' = updates
          /\ handlers.onError => errors' = Append(errors, lastPoll'.error)]_vars
  /\ [](controller = "returned" =>
          PollStarts(isRunning) /\ intervalId # NoInterval)

C28_Witness ==
  /\ lastPoll.op = "tick"
  /\ controller = "returned"
  /\ observed = <<1>>
  /\ lastUpdatedAt = 1
  /\ Len(errors) = 1
  /\ started = 3
  /\ inflight = {3}

\* C29: stop leaves isRunning false and the fetches in flight where they
\* are; after it no fetch is started, and a fetch leaves the set of those
\* in flight only by settling.
C29_StopEndsTicks ==
  /\ [][lastPoll'.op = "stop" => ~isRunning' /\ inflight' = inflight]_vars
  /\ [][controller = "stopped" => started' = started /\ ~isRunning']_vars
  /\ [][inflight' # inflight =>
          \/ lastPoll'.op = "settle" /\ inflight' \subseteq inflight
          \/ lastPoll'.op \in {"tick", "pollMergeRequest"}
               /\ inflight \subseteq inflight']_vars

C29_Witness ==
  /\ controller = "stopped"
  /\ lastPoll.op = "settle"
  /\ lastPoll.afterStop
  /\ observed = <<1, 2>>
  /\ Len(updates) = 1
  /\ inflight = {}

\* C30: the sleep after a failure of attempt a that went through the catch
\* block is retryDelay * 2^a plus a jitter in [0, 500); without the jitter
\* it is no smaller than for any earlier attempt, and the sleep is not
\* negative.
C30_ExponentialBackoff ==
  (pc = "sleep"
     /\ TryBlock(transport, history[Len(history)], attempt, retries).kind
          = "throw") =>
    /\ \E jitter \in 0..(BackoffJitterMs - 1) :
         /\ sleepMs - jitter = retryDelay * 2^attempt
         /\ \A a \in 0..attempt : retryDelay * 2^a <= sleepMs - jitter
    /\ sleepMs >= 0

C30_Witness ==
  /\ pc = "sleep"
  /\ TryBlock(transport, history[Len(history)], attempt, retries).kind
       = "throw"
  /\ attempt = 1
  /\ retryDelay = DefaultRetryDelay
  /\ sleepMs = 2 * DefaultRetryDelay + BackoffJitterMs - 1

\* C31: the timer awaited after a 429 with Retry-After: 0 on an attempt
\* that is not the last has a delay above zero, whatever the jitter.
C31_ZeroRetryAfterWaits ==
  (/\ pc = "sleep"
   /\ HasStatus(LastOutcome, 429)
   /\ LastOutcome.headers = RetryAfterHeader(FormatDec(0))) =>
     sleepMs > 0

\* C32: for a payload without project or without mergeRequest normalizeMR
\* throws an error that carries the code of a validation failure.
C32_ValidationError ==
  (normalized.kind # "pending"
     /\ ~(raw.data.project /\ raw.data.mergeRequest)) =>
    /\ normalized.kind = "thrown"
    /\ HasCode(normalized.error)
    /\ normalized.error.code = "VALIDATION"

\* C33: a nullable field of the view is absent exactly when its source is
\* null, and is the source value otherwise.
C33_NullableFields ==
  normalized.kind = "returned" =>
    /\ \A f \in {"description", "mergedAt", "avatarUrl", "duration",
                 "resolved"} :
         normalized.fields[f] =
           IF raw.mr[f] = JsNull THEN JsUndefined ELSE raw.mr[f]
    /\ normalized.fields.position.present = raw.mr.position.present
    /\ raw.mr.position.present =>
         normalized.fields.position.oldLine =
           IF raw.mr.position.oldLine = JsNull THEN JsUndefined
           ELSE raw.mr.position.oldLine

\* C34: of two calls for one fingerprint that both consult the cache, the
\* later one, entered while the earlier one was still fetching and the
\* cache held no live view, fetches as well.
C34_NoSingleFlight ==
  \A c, d \in CallIds :
    (/\ c < d
     /\ calls[d].pc # "idle"
     /\ calls[d].fp = calls[c].fp
     /\ calls[c].read /\ calls[c].fetched
     /\ calls[d].useCache /\ ~calls[d].forceRefresh
     /\ c \notin calls[d].doneBefore
     /\ calls[d].liveBefore = Undefined) =>
       /\ calls[d].read
       /\ calls[d].fetched
       /\ (calls[d].kind = "returned" /\ calls[c].kind = "returned") =>
            calls[d].ref # calls[c].ref

C34_Witness ==
  /\ calls[1].read /\ calls[1].fetched
  /\ calls[2].read /\ calls[2].fetched
  /\ calls[2].fp = calls[1].fp
  /\ 1 \notin calls[2].doneBefore
  /\ calls[1].kind = "returned"
  /\ calls[2].kind = "returned"
  /\ Len(heap) = 2

\* C35: as long as the cache holds an entry for a fingerprint that calls
\* have written, the entry is the view of the writer that completed last
\* (views are numbered as their fetches complete), whichever call started
\* first.
C35_LastWriterWins ==
  \A c \in CallIds :
    (calls[c].wrote /\ Has(cache, KeyOf(calls[c].fp))) =>
      /\ Find(cache, KeyOf(calls[c].fp)).value >= calls[c].ref
      /\ \E d \in CallIds :
           /\ calls[d].wrote
           /\ calls[d].fp = calls[c].fp
           /\ Find(cache, KeyOf(calls[c].fp)).value = calls[d].ref

\* The call started first completes last and its view replaces the view of
\* the call started after it.
C35_Witness ==
  /\ calls[1].wrote /\ calls[2].wrote
  /\ calls[2].fp = calls[1].fp
  /\ 1 \notin calls[2].doneBefore
  /\ calls[2].ref = 1
  /\ calls[1].ref = 2
  /\ Has(cache, KeyOf(calls[1].fp))
  /\ Find(cache, KeyOf(calls[1].fp)).value = 2

\* C36: the step in which a call's fetch or normalization fails changes
\* neither space; the entry of a forceRefresh call changes neither space;
\* the entry of any call that goes on to fetch adds and replaces no entry.
C36_FailureKeepsCache ==
  [][\A c \in CallIds :
       /\ (/\ calls[c].pc = "fetching"
           /\ calls'[c].pc = "done"
           /\ calls'[c].kind = "thrown") =>
             cache' = cache /\ diffCache' = diffCache
       /\ (/\ calls[c].pc = "idle"
           /\ calls'[c].pc # "idle"
           /\ calls'[c].forceRefresh) =>
             cache' = cache /\ diffCache' = diffCache
       /\ (calls[c].pc = "idle" /\ calls'[c].pc = "fetching") =>
             /\ diffCache' = diffCache
             /\ \A f \in callers :
                  Held1(cache', f) \in {<<>>, Held1(cache, f)}]_vars

\* A forceRefresh call that failed while the cache held a live view of its
\* fingerprint, which is still there.
C36_Witness ==
  \E c \in CallIds :
    /\ calls[c].forceRefresh
    /\ calls[c].useCache
    /\ calls[c].kind = "thrown"
    /\ calls[c].liveBefore # Undefined
    /\ Has(cache, KeyOf(calls[c].fp))
    /\ Find(cache, KeyOf(calls[c].fp)).value = calls[c].liveBefore

\* C37: a call that consults a cache holding a view of its fingerprint gets
\* that view and does not fetch, whatever commitsFirst it asks for and
\* whatever commitsFirst the view was fetched with.
C37_HitIgnoresPageSizes ==
  (/\ lastCall.op = "view"
   /\ lastCall.useCache
   /\ ~lastCall.forceRefresh
   /\ lastCall.liveBefore.view # Undefined) =>
     /\ lastCall.pc = "done"
     /\ lastCall.ret = lastCall.liveBefore.view

\* A view fetched with commitsFirst = 0 served to a call asking for 50.
C37_Witness ==
  /\ lastCall.op = "view"
  /\ lastCall.pc = "done"
  /\ lastCall.useCache
  /\ ~lastCall.forceRefresh
  /\ lastCall.liveBefore.view # Undefined
  /\ lastCall.ret = lastCall.liveBefore.view
  /\ lastCall.commitsFirst = 50
  /\ lastCall.liveBefore.first = 0

\* C38: once a page reports hasNextPage = false, or a null or empty
\* endCursor, the walk is over: no further page is requested and the items
\* collected so far are returned, without an error, also when the page said
\* hasNextPage = true with a null endCursor.
C38_WalkStops ==
  (/\ pages # <<>>
   /\ LET last == pages[Len(pages)].pageInfo IN
        ~last.hasNextPage \/ last.endCursor \in {Null, ""}) =>
     /\ pgPc = "done"
     /\ Len(requests) = Len(pages)
     /\ pgResult = PgReturned(deduplicateById(allItems))

\* A second page with hasNextPage = true and a null endCursor ended the
\* walk, and the items of both pages came back.
C38_Witness ==
  /\ Len(pages) = 2
  /\ pages[2].pageInfo.hasNextPage
  /\ pages[2].pageInfo.endCursor = Null
  /\ pages[1].items # <<>>
  /\ pages[2].items # <<>>
  /\ pgPc = "done"
  /\ pgResult.kind = "returned"
  /\ Len(pgResult.items) = 2

\* C39: when pollMergeRequest returns, before any interval tick, the initial
\* fetch has been started; afterwards each tick starts one fetch.
C39_InitialFetch ==
  lastPoll.op = "pollMergeRequest" => started = 1 /\ inflight = {1}

\* The items of the array pages, page after page.
RECURSIVE Flatten(_)
Flatten(ps) ==
  IF ps = <<>> THEN <<>>
  ELSE Flatten(SubSeq(ps, 1, Len(ps) - 1))
         \o (IF ps[Len(ps)].array THEN ps[Len(ps)].items ELSE <<>>)

\* A page after which restPaginate is to stop.
StoppingPage(p) == ~p.array \/ Len(p.items) # perPage

\* C40: the requests are for pages 1, 2, 3, ... in order, each with the
\* given per_page; no page before the last received one is a stopping page;
\* once a stopping page is received the call returns the concatenation of
\* the pages' items in order, having made as many requests as that page's
\* index; and it returns only then.
C40_RestPaginate ==
  /\ \A k \in 1..Len(restRequests) :
       restRequests[k].page = k /\ restRequests[k].per_page = perPage
  /\ \A k \in 1..(Len(restPages) - 1) : ~StoppingPage(restPages[k])
  /\ (restPages # <<>> /\ StoppingPage(restPages[Len(restPages)])) =>
       /\ restPc = "done"
       /\ restResult = RestReturned(Flatten(restPages))
       /\ Len(restRequests) = Len(restPages)
  /\ restResult.kind = "returned" =>
       restPages # <<>> /\ StoppingPage(restPages[Len(restPages)])

\* Two full pages and a short third one: three requests, five items.
C40_Witness ==
  /\ restResult.kind = "returned"
  /\ Len(restRequests) = 3
  /\ perPage = 2
  /\ Len(restPages[3].items) = 1
  /\ Len(restResult.items) = 5
  /\ restResult.items[1] # restResult.items[2]

====
